---- MODULE Spec2Model ----
(***************************************************************************)
(* Model of the bigquery-flash-data-sync pipeline:                         *)
(*   Start            (internal/pipeline/job.go)  errgroup orchestration   *)
(*   runTableJob      (internal/pipeline/job.go)  one (source, table) task *)
(*   InferSchemaFromMySQL, createOrUpdateTable, mysqlTypeToBigQueryType    *)
(*                    (internal/pipeline/bqsetup.go)                       *)
(*   executeJob       (internal/pipeline/job.go)  extract, buffer, load    *)
(*   SchemasMatch, ToSaveable (internal/model/models.go)                   *)
(*   ParseDynamicRow, convertValueToInterface (internal/model/parser.go)   *)
(* Every worker is a process whose position is pc[t]; each action is one   *)
(* blocking operation of the code together with the non-blocking code that *)
(* follows it up to the next blocking operation.                           *)
(***************************************************************************)
EXTENDS Integers, Sequences, FiniteSets, TLC

\* ------------------------------------------------------------------ bounds
\* number of (source, table) pairs taken from the head of the source list
NumTasks == 2
\* longest source result set
MaxRows == 2
\* longest schema compared by the SchemasMatch specification
MaxFields == 2
\* number of times the process is run against the same destination
MaxRuns == 2

\* ------------------------------------------------------------ text helpers
\* Go strings that the code takes apart are sequences of one-character strings.
LowerAlpha ==
  <<"a","b","c","d","e","f","g","h","i","j","k","l","m",
    "n","o","p","q","r","s","t","u","v","w","x","y","z">>
UpperAlpha ==
  <<"A","B","C","D","E","F","G","H","I","J","K","L","M",
    "N","O","P","Q","R","S","T","U","V","W","X","Y","Z">>

\* A character outside ASCII is written by its code point.  strings.ToUpper
\* maps every rune with unicode.ToUpper: U+0131 (dotless i) and U+017F (long
\* s) are the two runes outside ASCII whose upper case is an ASCII letter;
\* U+00E9 stands for the letters whose upper case is outside ASCII as well.
LowerOther == <<"U+0131", "U+017F", "U+00E9">>
UpperOther == <<"I", "S", "U+00C9">>

\* strings.ToUpper on one character
ToUpperChar(c) ==
  IF \E i \in 1..26 : LowerAlpha[i] = c
    THEN UpperAlpha[CHOOSE i \in 1..26 : LowerAlpha[i] = c]
  ELSE IF \E i \in 1..Len(LowerOther) : LowerOther[i] = c
    THEN UpperOther[CHOOSE i \in 1..Len(LowerOther) : LowerOther[i] = c]
  ELSE c

\* strings.ToLower on one character (used to build inputs only)
ToLowerChar(c) ==
  IF \E i \in 1..26 : UpperAlpha[i] = c
    THEN LowerAlpha[CHOOSE i \in 1..26 : UpperAlpha[i] = c]
    ELSE c

\* strings.ToUpper
ToUpper(s) == [i \in 1..Len(s) |-> ToUpperChar(s[i])]

\* strings.Split(s, "(")[0]: the text before the first "(", all of s if none
SplitFirst(s) ==
  IF \E i \in 1..Len(s) : s[i] = "("
    THEN SubSeq(s, 1, (CHOOSE i \in 1..Len(s) :
                         /\ s[i] = "("
                         /\ \A j \in 1..(i-1) : s[j] # "(") - 1)
    ELSE s

T_VARCHAR    == <<"V","A","R","C","H","A","R">>
T_CHAR       == <<"C","H","A","R">>
T_TEXT       == <<"T","E","X","T">>
T_TINYTEXT   == <<"T","I","N","Y","T","E","X","T">>
T_MEDIUMTEXT == <<"M","E","D","I","U","M","T","E","X","T">>
T_LONGTEXT   == <<"L","O","N","G","T","E","X","T">>
T_INT        == <<"I","N","T">>
T_TINYINT    == <<"T","I","N","Y","I","N","T">>
T_SMALLINT   == <<"S","M","A","L","L","I","N","T">>
T_MEDIUMINT  == <<"M","E","D","I","U","M","I","N","T">>
T_BIGINT     == <<"B","I","G","I","N","T">>
T_FLOAT      == <<"F","L","O","A","T">>
T_DOUBLE     == <<"D","O","U","B","L","E">>
T_DECIMAL    == <<"D","E","C","I","M","A","L">>
T_DATE       == <<"D","A","T","E">>
T_DATETIME   == <<"D","A","T","E","T","I","M","E">>
T_TIMESTAMP  == <<"T","I","M","E","S","T","A","M","P">>
T_BOOLEAN    == <<"B","O","O","L","E","A","N">>
T_BOOL       == <<"B","O","O","L">>

\* mysqlTypeToBigQueryType with the split before "(" left out
mysqlTypeToBigQueryType_NoSplit(mysqlType) ==
  LET t == ToUpper(mysqlType) IN
  IF t \in {T_VARCHAR, T_CHAR, T_TEXT, T_TINYTEXT, T_MEDIUMTEXT, T_LONGTEXT}
    THEN "STRING"
  ELSE IF t \in {T_INT, T_TINYINT, T_SMALLINT, T_MEDIUMINT, T_BIGINT}
    THEN "INTEGER"
  ELSE IF t \in {T_FLOAT, T_DOUBLE, T_DECIMAL} THEN "FLOAT"
  ELSE IF t = T_DATE THEN "DATE"
  ELSE IF t \in {T_DATETIME, T_TIMESTAMP} THEN "TIMESTAMP"
  ELSE IF t \in {T_BOOLEAN, T_BOOL} THEN "BOOLEAN"
  ELSE "STRING"

\* mysqlTypeToBigQueryType: upper-case the text before "(", then the switch
mysqlTypeToBigQueryType(mysqlType) ==
  LET t == ToUpper(SplitFirst(mysqlType)) IN
  IF t \in {T_VARCHAR, T_CHAR, T_TEXT, T_TINYTEXT, T_MEDIUMTEXT, T_LONGTEXT}
    THEN "STRING"
  ELSE IF t \in {T_INT, T_TINYINT, T_SMALLINT, T_MEDIUMINT, T_BIGINT}
    THEN "INTEGER"
  ELSE IF t \in {T_FLOAT, T_DOUBLE, T_DECIMAL} THEN "FLOAT"
  ELSE IF t = T_DATE THEN "DATE"
  ELSE IF t \in {T_DATETIME, T_TIMESTAMP} THEN "TIMESTAMP"
  ELSE IF t \in {T_BOOLEAN, T_BOOL} THEN "BOOLEAN"
  ELSE "STRING"

\* ------------------------------------------------------------------ schemas
\* bigquery.FieldSchema as far as the code reads or writes it
Field(n, ty, req) == [Name |-> n, Type |-> ty, Required |-> req]

\* the map SchemasMatch builds from s1: a later field of the same name
\* overwrites an earlier one
mapS1(s1) ==
  [n \in {s1[i].Name : i \in 1..Len(s1)} |->
     s1[CHOOSE i \in 1..Len(s1) :
          /\ s1[i].Name = n
          /\ \A j \in (i+1)..Len(s1) : s1[j].Name # n].Type]

\* the mismatches list SchemasMatch collects while it walks s2
RECURSIVE mismatches(_, _)
mismatches(m, s2) ==
  IF s2 = <<>> THEN <<>>
  ELSE LET field == Head(s2)
           rest == mismatches(m, Tail(s2))
       IN IF field.Name \notin DOMAIN m
            THEN <<"missing:" \o field.Name>> \o rest
          ELSE IF m[field.Name] # field.Type
            THEN <<"type:" \o field.Name>> \o rest
          ELSE rest

\* SchemasMatch with the final test on the mismatches list inverted
SchemasMatch_Negated(s1, s2) ==
  IF Len(s1) # Len(s2) THEN FALSE
  ELSE Len(mismatches(mapS1(s1), s2)) > 0

\* SchemasMatch without the field count comparison
SchemasMatch_NoCount(s1, s2) ==
  Len(mismatches(mapS1(s1), s2)) = 0

\* SchemasMatch
SchemasMatch(s1, s2) ==
  IF Len(s1) # Len(s2) THEN FALSE
  ELSE Len(mismatches(mapS1(s1), s2)) = 0

\* a log event: its level and its message
LogEvent(level, msg) == [level |-> level, msg |-> msg]

\* the warnings SchemasMatch writes with the logger it is given
SchemasMatch_Warnings(s1, s2) ==
  IF Len(s1) # Len(s2) THEN <<LogEvent("warn", "Schema field count mismatch")>>
  ELSE IF Len(mismatches(mapS1(s1), s2)) > 0
    THEN <<LogEvent("warn", "Schema mismatches detected")>>
  ELSE <<>>

\* ---------------------------------------------------------------- row values
\* values the SQL driver hands to rows.Scan for one column
NullValue     == [k |-> "nil",    v |-> ""]
BytesValue    == [k |-> "bytes",  v |-> "ab"]
TimeValue     == [k |-> "time",   v |-> "t1"]
IntValue      == [k |-> "int64",  v |-> "7"]
NaNValue      == [k |-> "float64", v |-> "NaN"]

\* cfg.DateFormat, the one layout applied to every time value
DateFormat == "2006-01-02"

\* convertValueToInterface: nil stays nil, []byte becomes string, time.Time
\* is formatted with the configured layout, anything else passes through
convertValueToInterface(rawValue, dateFormat) ==
  IF rawValue.k = "nil" THEN rawValue
  ELSE IF rawValue.k = "bytes" THEN [k |-> "string", v |-> rawValue.v]
  ELSE IF rawValue.k = "time"
    THEN [k |-> "string", v |-> rawValue.v \o "@" \o dateFormat]
  ELSE rawValue

\* ParseDynamicRow after a successful rows.Scan: the DynamicRow built from the
\* column names and the converted values
ParseDynamicRow(columns, values, dateFormat) ==
  [ColumnNames |-> columns,
   Values |-> [i \in 1..Len(values) |->
                 convertValueToInterface(values[i], dateFormat)]]

\* DynamicRow.ToSaveable leaving out the columns whose value is nil
ToSaveable_OmitNil(r) ==
  [n \in {r.ColumnNames[i] : i \in {j \in 1..Len(r.ColumnNames) :
                                       r.Values[j].k # "nil"}} |->
     r.Values[CHOOSE i \in 1..Len(r.ColumnNames) :
                /\ r.ColumnNames[i] = n
                /\ \A j \in (i+1)..Len(r.ColumnNames) : r.ColumnNames[j] # n]]

\* DynamicRow.ToSaveable: map from column name to value, a later column of the
\* same name overwrites an earlier one
ToSaveable(r) ==
  [n \in {r.ColumnNames[i] : i \in 1..Len(r.ColumnNames)} |->
     r.Values[CHOOSE i \in 1..Len(r.ColumnNames) :
                /\ r.ColumnNames[i] = n
                /\ \A j \in (i+1)..Len(r.ColumnNames) : r.ColumnNames[j] # n]]

\* json.Encoder.Encode fails on a value JSON cannot represent (NaN, Inf)
Encodable(m) == \A n \in DOMAIN m : ~(m[n].k = "float64" /\ m[n].v = "NaN")

\* ----------------------------------------------------------- configuration
\* the sources list of Start with one table listed twice under salesforce
Sources_TableListedTwice ==
  << [Name |-> "salesforce",
      SourceTables |-> <<"arr_sf_opportunity", "arr_sf_opportunity">>],
     [Name |-> "finance",
      SourceTables |-> <<"cache_financial_acc_expense",
                         "cache_financial_acc_cost_of_sales",
                         "cache_financial_acc_income">>] >>

\* the sources list of Start, flattened in the order of its two loops
Sources ==
  << [Name |-> "salesforce",
      SourceTables |-> <<"arr_sf_opportunity", "arr_sf_account">>],
     [Name |-> "finance",
      SourceTables |-> <<"cache_financial_acc_expense",
                         "cache_financial_acc_cost_of_sales",
                         "cache_financial_acc_income">>] >>

RECURSIVE FlattenPairs(_, _, _)
FlattenPairs(srcs, i, j) ==
  IF i > Len(srcs) THEN <<>>
  ELSE IF j > Len(srcs[i].SourceTables) THEN FlattenPairs(srcs, i + 1, 1)
  ELSE <<[source |-> srcs[i].Name, table |-> srcs[i].SourceTables[j]]>>
         \o FlattenPairs(srcs, i, j + 1)

Pairs == FlattenPairs(Sources, 1, 1)

\* workers the model follows: the first NumTasks pairs of the list (the two
\* loops over the whole list are SpecSpawn)
TaskCount == IF NumTasks < Len(Pairs) THEN NumTasks ELSE Len(Pairs)
TaskIds == 1..TaskCount

\* the copies source := src and table := tableName that the closure of
\* iteration i captures
loopCopy(i) == Pairs[i]

\* the destination tables of the configuration: one per pair, named as the
\* source table
TableNames == {Pairs[t].table : t \in TaskIds}

\* ------------------------------------------------------------------- errors
Nil == [stage |-> "nil", why |-> ""]
Err(stage, why) == [stage |-> stage, why |-> why]
\* an error as Start and the errgroup hold it: identified by the message
\* runTableJob (or Start) wrapped it in
Wrapped(e) == e.stage
NoGroupErr == [task |-> 0, err |-> Wrapped(Nil)]

\* an error text is the set of phrases strings.Contains can find in it
Contains(text, phrase) == phrase \in text
CtxCanceled == {"context canceled"}

\* the texts a failed schema update can carry
UpdateErrTexts ==
  {{}, {"invalid"}, {"changed type"}, {"is missing"},
   {"invalid", "changed type"}, {"invalid", "is missing"},
   {"changed type", "is missing"}, CtxCanceled}

\* isCriticalError with "or" in place of the "and" that requires "invalid"
isCriticalError_Or(text) ==
  (Contains(text, "changed type") \/ Contains(text, "is missing"))
    \/ Contains(text, "invalid")

\* isCriticalError of createOrUpdateTable
isCriticalError(text) ==
  (Contains(text, "changed type") \/ Contains(text, "is missing"))
    /\ Contains(text, "invalid")

\* -------------------------------------------------------------------- state
VARIABLES
  njobs,          \* number of (source, table) pairs of this configuration
  run,            \* how many times Start has been entered
  startPc,        \* position of Start
  startRet,       \* the error Start returned
  spawned,        \* number of g.Go calls made
  ctxDone,        \* the errgroup context is cancelled
  gErr,           \* g.err together with the worker that set it
  firstFailed,    \* worker whose failing operation returned first, 0 if none
  outcome,        \* how each closure ended: "none", "success", "failure"
  pc,             \* position of each worker
  terr,           \* the error runTableJob returns
  inferredSchema, \* runTableJob's inferredSchema
  rowNum, totalRowsExtracted, skippedRows, buf,   \* locals of executeJob
  rowsClosed,     \* database/sql has closed the worker's cursor after the
                  \* context was cancelled
  strays,         \* load jobs of earlier runs the destination has not
                  \* finished yet
  loadJob,        \* the load job submitted by loader.Run
  ops,            \* destination calls issued by the worker in this run
  reconRet,       \* results of the createOrUpdateTable calls made for each pair
  srcCols,        \* column types of each source table
  srcRows,        \* rows of each source table
  dest,           \* destination tables
  preSync,        \* each pair's destination table as it was when its worker
                  \* was started
  logged,         \* warnings and errors createOrUpdateTable has logged in the
                  \* worker's current call
  jobArgs,        \* the source and table each worker's closure captured
  probe           \* argument and result of a function applied on its own

vars == <<njobs, run, startPc, startRet, spawned, ctxDone, gErr, firstFailed,
          outcome, pc,
          terr, inferredSchema, rowNum, totalRowsExtracted, skippedRows, buf,
          rowsClosed, strays, loadJob, ops, reconRet, srcCols, srcRows, dest, preSync, logged,
          jobArgs, probe>>

startVars == <<startPc, startRet, spawned>>
execVars  == <<rowNum, totalRowsExtracted, skippedRows, buf, rowsClosed>>
envVars   == <<njobs, run, strays, srcCols, srcRows, probe, preSync, logged,
               jobArgs>>
keptVars == <<envVars, reconRet>>

\* a worker that has not been started holds no pair
NoArgs == [source |-> "", table |-> ""]

\* every worker given the table of the first pair
TableOf_Shared(t) == Pairs[1].table

\* the destination table of worker t: the table its closure passes to
\* runTableJob
TableOf(t) == jobArgs[t].table


\* source column as database/sql reports it: name, DatabaseTypeName, Nullable
Col(n, ty, ok, nullable) ==
  [Name |-> n, DatabaseTypeName |-> ty, ok |-> ok, nullable |-> nullable]

ColsIdName ==
  <<Col("id", T_INT, TRUE, FALSE), Col("name", T_VARCHAR, TRUE, TRUE)>>
ColsIdOnly == <<Col("id", T_INT, FALSE, FALSE)>>

ColNames(cols) == [i \in 1..Len(cols) |-> cols[i].Name]

\* InferSchemaFromMySQL's schema with a column of unknown nullability taken
\* as required
InferFields_RequiredWhenUnknown(columnTypes) ==
  [i \in 1..Len(columnTypes) |->
     Field(columnTypes[i].Name,
           mysqlTypeToBigQueryType(columnTypes[i].DatabaseTypeName),
           ~columnTypes[i].ok \/ ~columnTypes[i].nullable)]

\* InferSchemaFromMySQL's schema with Required set from nullable alone, the
\* driver's ok left unread
InferFields_RequiredUnlessNullable(columnTypes) ==
  [i \in 1..Len(columnTypes) |->
     Field(columnTypes[i].Name,
           mysqlTypeToBigQueryType(columnTypes[i].DatabaseTypeName),
           ~columnTypes[i].nullable)]

\* the schema InferSchemaFromMySQL builds from the column types
InferFields(columnTypes) ==
  [i \in 1..Len(columnTypes) |->
     Field(columnTypes[i].Name,
           mysqlTypeToBigQueryType(columnTypes[i].DatabaseTypeName),
           columnTypes[i].ok /\ ~columnTypes[i].nullable)]

\* a source row: whether rows.Scan succeeds on it, and the scanned values
Row(scanOK, vals) == [scanOK |-> scanOK, vals |-> vals]

AbsentTable == [exists |-> FALSE, schema |-> <<>>, rows |-> <<>>]
Table(schema, rows) == [exists |-> TRUE, schema |-> schema, rows |-> rows]
OldRows == << [id |-> [k |-> "int64", v |-> "old"]] >>

Op(name, ok, text) == [op |-> name, ok |-> ok, text |-> text]

NoProbe == [f |-> "none"]

\* a load job at the destination: its state and the payload it was given
LoadJob(st, data) == [st |-> st, data |-> data]
NoJob == LoadJob("none", <<>>)

\* ------------------------------------------------------------ initial states
\* a schema the destination holds that differs from the inferred one in a type
RetypedSchema(schema) ==
  [i \in 1..Len(schema) |->
     IF i = 1 THEN Field(schema[i].Name, "STRING", FALSE) ELSE schema[i]]

\* the same fields in reverse order
ReversedSchema(schema) ==
  [i \in 1..Len(schema) |-> schema[Len(schema) + 1 - i]]

\* a schema with one more field
WidenedSchema(schema) == Append(schema, Field("extra", "STRING", FALSE))

GoodRow(cols) ==
  Row(TRUE, [i \in 1..Len(cols) |-> IF i = 1 THEN IntValue ELSE NullValue])
TextRow(cols) ==
  Row(TRUE, [i \in 1..Len(cols) |-> IF i = 1 THEN IntValue ELSE BytesValue])
TimeRow(cols) ==
  Row(TRUE, [i \in 1..Len(cols) |-> IF i = 1 THEN IntValue ELSE TimeValue])
ScanFailRow(cols) ==
  Row(FALSE, [i \in 1..Len(cols) |-> NullValue])
NaNRow(cols) ==
  Row(TRUE, [i \in 1..Len(cols) |-> NaNValue])

\* all sequences over S of length at most n
SeqUpTo(S, n) == UNION {[1..k -> S] : k \in 0..n}

\* state of the process when Start is entered for a configuration of n pairs
InitControl(n) ==
  /\ njobs = n
  /\ run = 1
  /\ startPc = "new_client"
  /\ startRet = Wrapped(Nil)
  /\ spawned = 0
  /\ ctxDone = FALSE
  /\ gErr = NoGroupErr
  /\ firstFailed = 0
  /\ outcome = [t \in TaskIds |-> "none"]
  /\ pc = [t \in TaskIds |-> "idle"]
  /\ terr = [t \in TaskIds |-> Nil]
  /\ inferredSchema = [t \in TaskIds |-> <<>>]
  /\ rowNum = [t \in TaskIds |-> 0]
  /\ totalRowsExtracted = [t \in TaskIds |-> 0]
  /\ skippedRows = [t \in TaskIds |-> 0]
  /\ buf = [t \in TaskIds |-> <<>>]
  /\ rowsClosed = [t \in TaskIds |-> FALSE]
  /\ strays = <<>>
  /\ loadJob = [t \in TaskIds |-> NoJob]
  /\ ops = [t \in TaskIds |-> <<>>]
  /\ reconRet = [t \in TaskIds |-> <<>>]
  /\ preSync = [t \in TaskIds |-> AbsentTable]
  /\ logged = [t \in TaskIds |-> <<>>]
  /\ jobArgs = [t \in TaskIds |-> NoArgs]

\* concurrent run: every pair starts from the same kind of source and
\* destination (first sync, steady state, or source schema changed)
Init ==
  /\ InitControl(TaskCount)
  /\ probe = NoProbe
  /\ \E d \in {AbsentTable,
               Table(ReversedSchema(InferFields(ColsIdName)), OldRows),
               Table(RetypedSchema(InferFields(ColsIdName)), OldRows)},
        rs \in {<<>>, <<GoodRow(ColsIdName)>>} :
       /\ srcCols = [t \in TaskIds |-> ColsIdName]
       /\ srcRows = [t \in TaskIds |-> rs]
       /\ dest = [n \in TableNames |-> d]

\* one worker, every kind of source and destination, run up to MaxRuns times
InitTask ==
  /\ InitControl(1)
  /\ probe = NoProbe
  /\ \E cols \in {ColsIdName, ColsIdOnly} :
       \E d \in {AbsentTable,
                 Table(InferFields(cols), OldRows),
                 Table(ReversedSchema(InferFields(cols)), <<>>),
                 Table(RetypedSchema(InferFields(cols)), OldRows),
                 Table(WidenedSchema(InferFields(cols)), OldRows)},
          rs \in SeqUpTo({GoodRow(cols), TextRow(cols), TimeRow(cols),
                          ScanFailRow(cols), NaNRow(cols)}, MaxRows) :
         /\ srcCols = [t \in TaskIds |-> cols]
         /\ srcRows = [t \in TaskIds |-> IF t = 1 THEN rs ELSE <<>>]
         /\ dest = [n \in TableNames |->
                      IF n = Pairs[1].table THEN d ELSE AbsentTable]

\* ------------------------------------------------------------------ helpers
\* outcomes of a blocking call that takes the run context: it fails once the
\* context is cancelled, otherwise it may succeed or fail
CtxOutcomes == IF ctxDone THEN {"canceled"} ELSE {"ok", "error"}

\* outcomes of rows.Next and rows.Err on the cursor of QueryContext: Next
\* takes no context, and a cancelled context reaches the cursor only when
\* database/sql closes it from another goroutine, so after the cancellation
\* the cursor may still deliver a row, or end with rows.Err() nil, or report
\* the cancellation
\* the cancellation; the close can also fall between a rows.Next that
\* delivered a row and the rows.Columns and rows.Scan of ParseDynamicRow,
\* which then fail on the closed cursor ("closed"); once the cursor is closed
\* rows.Next is false and rows.Err() is the cancellation
CursorOutcomes(t) ==
  IF rowsClosed[t] THEN {"canceled"}
  ELSE IF ctxDone THEN {"ok", "closed", "canceled"}
  ELSE {"ok", "error"}

\* outcomes of a blocking call that takes no context (db.Query)
NoCtxOutcomes == {"ok", "error"}

\* runTableJob returns e: the worker's failing operation has returned
TaskFail(t, e) ==
  /\ pc' = [pc EXCEPT ![t] = "ret"]
  /\ terr' = [terr EXCEPT ![t] = e]
  /\ firstFailed' = IF firstFailed = 0 THEN t ELSE firstFailed

\* the worker moves on to position p
TaskGoto(t, p) ==
  /\ pc' = [pc EXCEPT ![t] = p]
  /\ UNCHANGED <<terr, firstFailed>>

LogOp(t, name, ok, text) ==
  ops' = [ops EXCEPT ![t] = Append(@, Op(name, ok, text))]

\* ---------------------------------------------------------------- Start
\* bigquery.NewClient at the top of Start
Start_NewClient ==
  /\ startPc = "new_client"
  /\ \E ok \in BOOLEAN :
       IF ok
         THEN /\ startPc' = "go"
              /\ UNCHANGED startRet
         ELSE /\ startPc' = "returned"
              /\ startRet' =
                   Wrapped(Err("start", "failed to create BigQuery client"))
  /\ UNCHANGED <<outcome, spawned, ctxDone, gErr, firstFailed, pc, terr,
                 inferredSchema, execVars, loadJob, ops, dest, keptVars>>

\* one g.Go call of the two nested loops: the next pair gets its worker
Start_Go ==
  /\ startPc = "go"
  /\ spawned < njobs
  /\ spawned' = spawned + 1
  /\ pc' = [pc EXCEPT ![spawned + 1] = "open"]
  /\ startPc' = IF spawned + 1 = njobs THEN "wait" ELSE "go"
  /\ jobArgs' = [jobArgs EXCEPT ![spawned + 1] = loopCopy(spawned + 1)]
  /\ preSync' = [preSync EXCEPT ![spawned + 1] =
                    dest[loopCopy(spawned + 1).table]]
  /\ UNCHANGED <<outcome, startRet, ctxDone, gErr, firstFailed, terr,
                 inferredSchema, execVars, loadJob, ops, dest, reconRet,
                 njobs, run, strays, srcCols, srcRows,
                 probe, logged>>

\* errOnce.Do in the errgroup wrapper, overwriting an error already recorded
errOnceDo_Overwrite(cur, t, e) == [task |-> t, err |-> Wrapped(e)]

\* errOnce.Do in the errgroup wrapper: only the first error is kept
errOnceDo(cur, t, e) ==
  IF cur = NoGroupErr THEN [task |-> t, err |-> Wrapped(e)] ELSE cur

\* the closure passed to g.Go has returned, with a group that records the
\* error but does not cancel the shared context
Go_Return_NoCancel(t) ==
  /\ pc[t] = "ret"
  /\ pc' = [pc EXCEPT ![t] = "done"]
  /\ IF terr[t] # Nil
       THEN gErr' = errOnceDo(gErr, t, terr[t])
       ELSE UNCHANGED gErr
  /\ outcome' = [outcome EXCEPT ![t] =
                    IF terr[t] = Nil THEN "success" ELSE "failure"]
  /\ terr' = [terr EXCEPT ![t] = Nil]
  /\ inferredSchema' = [inferredSchema EXCEPT ![t] = <<>>]
  /\ rowNum' = [rowNum EXCEPT ![t] = 0]
  /\ totalRowsExtracted' = [totalRowsExtracted EXCEPT ![t] = 0]
  /\ skippedRows' = [skippedRows EXCEPT ![t] = 0]
  /\ buf' = [buf EXCEPT ![t] = <<>>]
  /\ rowsClosed' = [rowsClosed EXCEPT ![t] = FALSE]
  /\ ops' = [ops EXCEPT ![t] = <<>>]
  /\ logged' = [logged EXCEPT ![t] = <<>>]
  /\ UNCHANGED <<startVars, ctxDone, firstFailed, loadJob, dest, reconRet,
                 njobs, run, strays, srcCols, srcRows,
                 probe, preSync, jobArgs>>

\* the closure passed to g.Go has returned: a non-nil error is offered to the
\* group, the first one is kept and cancels the shared context
Go_Return(t) ==
  /\ pc[t] = "ret"
  /\ pc' = [pc EXCEPT ![t] = "done"]
  /\ IF terr[t] # Nil
       THEN /\ gErr' = errOnceDo(gErr, t, terr[t])
            /\ ctxDone' = TRUE
       ELSE UNCHANGED <<gErr, ctxDone>>
  /\ outcome' = [outcome EXCEPT ![t] =
                    IF terr[t] = Nil THEN "success" ELSE "failure"]
  /\ terr' = [terr EXCEPT ![t] = Nil]
  /\ inferredSchema' = [inferredSchema EXCEPT ![t] = <<>>]
  /\ rowNum' = [rowNum EXCEPT ![t] = 0]
  /\ totalRowsExtracted' = [totalRowsExtracted EXCEPT ![t] = 0]
  /\ skippedRows' = [skippedRows EXCEPT ![t] = 0]
  /\ buf' = [buf EXCEPT ![t] = <<>>]
  /\ rowsClosed' = [rowsClosed EXCEPT ![t] = FALSE]
  /\ ops' = [ops EXCEPT ![t] = <<>>]
  /\ logged' = [logged EXCEPT ![t] = <<>>]
  /\ UNCHANGED <<startVars, firstFailed, loadJob, dest, reconRet,
                 njobs, run, strays, srcCols, srcRows,
                 probe, preSync, jobArgs>>

\* g.Wait returning as soon as one worker has finished
WaitReleased_Any(n) == \E t \in 1..n : pc[t] = "done"

\* g.Wait blocks until every worker has finished
WaitReleased(n) == \A t \in 1..n : pc[t] = "done"

\* the value g.Wait hands back, with the error dropped
WaitResult_Nil(g) == Wrapped(Nil)

\* the value g.Wait hands back
WaitResult(g) == g.err

\* g.Wait and the return of Start
Start_Wait ==
  /\ startPc = "wait"
  /\ WaitReleased(njobs)
  /\ startPc' = "returned"
  /\ startRet' = WaitResult(gErr)
  /\ ctxDone' = TRUE
  /\ UNCHANGED <<outcome, spawned, gErr, firstFailed, pc, terr,
                 inferredSchema, execVars, loadJob, ops, dest, keptVars>>

\* the context passed to Start is cancelled by its caller (run timeout)
Parent_Cancel ==
  /\ startPc # "returned"
  /\ ~ctxDone
  /\ ctxDone' = TRUE
  /\ UNCHANGED <<outcome, startVars, gErr, firstFailed, pc, terr,
                 inferredSchema, execVars, loadJob, ops, dest, keptVars>>

\* ------------------------------------------------------------ runTableJob
\* sql.Open and the pool settings
runTableJob_Open(t) ==
  /\ pc[t] = "open"
  /\ \E ok \in BOOLEAN :
       IF ok THEN TaskGoto(t, "infer")
       ELSE TaskFail(t, Err("open",
              "failed to open DB connection for schema inference"))
  /\ UNCHANGED <<outcome, startVars, ctxDone, gErr, inferredSchema, execVars,
                 loadJob, ops, dest, keptVars>>

\* InferSchemaFromMySQL: db.Query without a context, rows.ColumnTypes, and
\* the loop that maps every column
InferSchemaFromMySQL(t) ==
  /\ pc[t] = "infer"
  /\ \E q \in NoCtxOutcomes, colsOK \in BOOLEAN :
       IF q # "ok"
         THEN /\ TaskFail(t, Err("infer", "schema inference query failed"))
              /\ UNCHANGED inferredSchema
       ELSE IF ~colsOK
         THEN /\ TaskFail(t, Err("infer",
                     "failed to get column types for inference"))
              /\ UNCHANGED inferredSchema
       ELSE /\ TaskGoto(t, "metadata")
            /\ inferredSchema' =
                 [inferredSchema EXCEPT ![t] = InferFields(srcCols[t])]
  /\ UNCHANGED <<outcome, startVars, ctxDone, gErr, execVars, loadJob, ops,
                 dest, keptVars>>

\* ------------------------------------------------------ createOrUpdateTable
MsgSchemaMismatch == "Schema mismatch detected, attempting update"
MsgCritical == "Critical schema error detected, recreating table"
MsgDeleteAll == "WARNING: Recreating table will DELETE ALL EXISTING DATA"

\* what the destination answers to tableRef.Metadata
MetadataResults(tbl) ==
  IF ctxDone THEN {Op("metadata", FALSE, CtxCanceled)}
  ELSE IF tbl.exists
    THEN {Op("metadata", TRUE, {}), Op("metadata", FALSE, {})}
    ELSE {Op("metadata", FALSE, {"Not found"}), Op("metadata", FALSE, {})}

\* what the destination answers to tableRef.Create
CreateResults(tbl) ==
  IF ctxDone THEN {Op("create", FALSE, CtxCanceled)}
  ELSE IF tbl.exists THEN {Op("create", FALSE, {"Already Exists"})}
  ELSE {Op("create", TRUE, {}), Op("create", FALSE, {})}

\* what the destination answers to tableRef.Update
UpdateResults(tbl) ==
  IF ctxDone THEN {Op("update", FALSE, CtxCanceled)}
  ELSE IF ~tbl.exists THEN {Op("update", FALSE, {"Not found"})}
  ELSE {Op("update", TRUE, {})}
         \cup {Op("update", FALSE, x) : x \in UpdateErrTexts \ {CtxCanceled}}

\* what the destination answers to tableRef.Delete
DeleteResults(tbl) ==
  IF ctxDone THEN {Op("delete", FALSE, CtxCanceled)}
  ELSE IF ~tbl.exists THEN {Op("delete", FALSE, {"Not found"})}
  ELSE {Op("delete", TRUE, {}), Op("delete", FALSE, {})}

\* createOrUpdateTable returns nil: runTableJob goes on to executeJob
ReconcileOk(t) ==
  /\ TaskGoto(t, "exec_query")
  /\ reconRet' = [reconRet EXCEPT ![t] = Append(@, "nil")]

\* createOrUpdateTable returns an error that runTableJob does not look at
ReconcileFail_Continue(t, why) ==
  /\ TaskGoto(t, "exec_query")
  /\ reconRet' = [reconRet EXCEPT ![t] = Append(@, "err")]

\* createOrUpdateTable returns an error, which runTableJob wraps and returns
ReconcileFail(t, why) ==
  /\ TaskFail(t, Err("reconcile", why))
  /\ reconRet' = [reconRet EXCEPT ![t] = Append(@, "err")]

\* tableRef.Metadata, the "Not found" test and SchemasMatch with the
\* warnings it and createOrUpdateTable log on a mismatch
createOrUpdateTable_Metadata(t) ==
  /\ pc[t] = "metadata"
  /\ \E r \in MetadataResults(dest[TableOf(t)]) :
       /\ LogOp(t, r.op, r.ok, r.text)
       /\ IF ~r.ok
            THEN IF Contains(r.text, "Not found")
                   THEN TaskGoto(t, "create") /\ UNCHANGED reconRet
                   ELSE ReconcileFail(t, "failed to get table metadata")
          ELSE IF ~SchemasMatch(dest[TableOf(t)].schema, inferredSchema[t])
            THEN TaskGoto(t, "update") /\ UNCHANGED reconRet
          ELSE ReconcileOk(t)
       /\ logged' = [logged EXCEPT ![t] =
                       IF r.ok /\ ~SchemasMatch(dest[TableOf(t)].schema,
                                                inferredSchema[t])
                         THEN @ \o SchemasMatch_Warnings(
                                     dest[TableOf(t)].schema,
                                     inferredSchema[t])
                                \o <<LogEvent("warn", MsgSchemaMismatch)>>
                         ELSE @]
  /\ UNCHANGED <<outcome, startVars, ctxDone, gErr, inferredSchema, execVars,
                 loadJob, dest, njobs, run, strays, srcCols, srcRows,
                 probe, preSync,
                 jobArgs>>

\* tableRef.Create of a table that was not found
createOrUpdateTable_Create(t) ==
  /\ pc[t] = "create"
  /\ \E r \in CreateResults(dest[TableOf(t)]) :
       /\ LogOp(t, r.op, r.ok, r.text)
       /\ IF r.ok
            THEN /\ dest' = [dest EXCEPT ![TableOf(t)] =
                                Table(inferredSchema[t], <<>>)]
                 /\ ReconcileOk(t)
            ELSE /\ UNCHANGED dest
                 /\ ReconcileFail(t, "failed to create table")
  /\ UNCHANGED <<outcome, startVars, ctxDone, gErr, inferredSchema, execVars,
                 loadJob, envVars>>

\* what is logged on a failed update, with the data-loss warning left out
logOnUpdateFailure_NoWarning(text) ==
  IF isCriticalError(text)
    THEN <<LogEvent("error", MsgCritical)>>
    ELSE <<>>

\* what createOrUpdateTable logs when tableRef.Update has failed: on a
\* critical error the error and the data-loss warning, before the delete
logOnUpdateFailure(text) ==
  IF isCriticalError(text)
    THEN <<LogEvent("error", MsgCritical), LogEvent("warn", MsgDeleteAll)>>
    ELSE <<>>

\* the branch taken on a failed update, with the final return missing
updateFailed_FallThrough(text) ==
  IF isCriticalError(text)
    THEN [next |-> "delete", why |-> ""]
    ELSE [next |-> "exec_query", why |-> ""]

\* the branch createOrUpdateTable takes when tableRef.Update has failed
updateFailed(text) ==
  IF isCriticalError(text)
    THEN [next |-> "delete", why |-> ""]
    ELSE [next |-> "ret", why |-> "failed to update table schema"]

\* tableRef.Update after a schema mismatch
createOrUpdateTable_Update(t) ==
  /\ pc[t] = "update"
  /\ \E r \in UpdateResults(dest[TableOf(t)]) :
       /\ LogOp(t, r.op, r.ok, r.text)
       /\ IF r.ok
            THEN /\ dest' = [dest EXCEPT ![TableOf(t)].schema =
                                inferredSchema[t]]
                 /\ ReconcileOk(t)
            ELSE /\ UNCHANGED dest
                 /\ IF updateFailed(r.text).next = "ret"
                      THEN ReconcileFail(t, updateFailed(r.text).why)
                      ELSE /\ TaskGoto(t, updateFailed(r.text).next)
                           /\ UNCHANGED reconRet
       /\ logged' = [logged EXCEPT ![t] =
                       IF r.ok THEN @ ELSE @ \o logOnUpdateFailure(r.text)]
  /\ UNCHANGED <<outcome, startVars, ctxDone, gErr, inferredSchema, execVars,
                 loadJob, njobs, run, strays, srcCols, srcRows,
                 probe, preSync,
                 jobArgs>>

\* tableRef.Delete of the destructive recreate with delErr not looked at: the
\* create follows whatever the delete returned
createOrUpdateTable_Delete_IgnoreError(t) ==
  /\ pc[t] = "delete"
  /\ \E r \in DeleteResults(dest[TableOf(t)]) :
       /\ LogOp(t, r.op, r.ok, r.text)
       /\ dest' = IF r.ok THEN [dest EXCEPT ![TableOf(t)] = AbsentTable]
                          ELSE dest
       /\ TaskGoto(t, "recreate")
       /\ UNCHANGED reconRet
  /\ UNCHANGED <<outcome, startVars, ctxDone, gErr, inferredSchema, execVars,
                 loadJob, envVars>>

\* tableRef.Delete of the destructive recreate
createOrUpdateTable_Delete(t) ==
  /\ pc[t] = "delete"
  /\ \E r \in DeleteResults(dest[TableOf(t)]) :
       /\ LogOp(t, r.op, r.ok, r.text)
       /\ IF r.ok
            THEN /\ dest' = [dest EXCEPT ![TableOf(t)] = AbsentTable]
                 /\ TaskGoto(t, "recreate")
                 /\ UNCHANGED reconRet
            ELSE /\ UNCHANGED dest
                 /\ ReconcileFail(t, "failed to delete table with bad schema")
  /\ UNCHANGED <<outcome, startVars, ctxDone, gErr, inferredSchema, execVars,
                 loadJob, envVars>>

\* tableRef.Create of the destructive recreate
createOrUpdateTable_Recreate(t) ==
  /\ pc[t] = "recreate"
  /\ \E r \in CreateResults(dest[TableOf(t)]) :
       /\ LogOp(t, r.op, r.ok, r.text)
       /\ IF r.ok
            THEN /\ dest' = [dest EXCEPT ![TableOf(t)] =
                                Table(inferredSchema[t], <<>>)]
                 /\ ReconcileOk(t)
            ELSE /\ UNCHANGED dest
                 /\ ReconcileFail(t,
                      "failed to recreate table with correct schema")
  /\ UNCHANGED <<outcome, startVars, ctxDone, gErr, inferredSchema, execVars,
                 loadJob, envVars>>

\* --------------------------------------------------------------- executeJob
\* executeJob logs the error and returns nil
ExecFail_Swallow(t, why) == TaskGoto(t, "ret")

\* executeJob returns an error, which runTableJob wraps and returns
ExecFail(t, why) == TaskFail(t, Err("execute", why))

\* db.QueryContext
executeJob_Query(t) ==
  /\ pc[t] = "exec_query"
  /\ \E o \in CtxOutcomes :
       IF o = "ok" THEN TaskGoto(t, "next")
       ELSE ExecFail(t, "failed to query database")
  /\ UNCHANGED <<outcome, startVars, ctxDone, gErr, inferredSchema, execVars,
                 loadJob, ops, dest, keptVars>>

\* the test that ends executeJob without a load, made on the rows read
NoRowsToLoad_RowNum(total, read) == read = 0

\* the test that ends executeJob without a load, passed as well when some row
\* was skipped
NoRowsToLoad_AnySkipped(total, read) == total = 0 \/ total < read

\* the test that ends executeJob without a load: totalRowsExtracted == 0
NoRowsToLoad(total, read) == total = 0

\* encoder.Encode with the record put in front of the buffer
bufWrite_Prepend(b, m) == <<m>> \o b

\* encoder.Encode on the in-memory buffer: the record is written as one line
\* after what the buffer holds
bufWrite(b, m) == Append(b, m)

\* the skip counter after a row failed to parse, with the increment left out
onParseError_Uncounted(skipped) == skipped

\* the skip counter after a row failed to parse: skippedRows++ and continue
onParseError(skipped) == skipped + 1

\* rows.Next and what follows it: one pass of the loop body when a row is
\* there, the rows.Err check and the zero-row test when the cursor has ended
executeJob_Next(t) ==
  /\ pc[t] = "next"
  /\ \E o \in CursorOutcomes(t) :
       IF o \in {"error", "canceled"}
         THEN /\ ExecFail(t, "error during row iteration")
              /\ UNCHANGED execVars
       ELSE IF rowNum[t] < Len(srcRows[t])
         THEN LET row == srcRows[t][rowNum[t] + 1]
                  m == ToSaveable(ParseDynamicRow(ColNames(srcCols[t]),
                                                  row.vals, DateFormat))
              IN /\ rowNum' = [rowNum EXCEPT ![t] = @ + 1]
                 /\ rowsClosed' = [rowsClosed EXCEPT ![t] = (o = "closed")]
                 /\ IF o = "closed" \/ ~row.scanOK
                      THEN /\ skippedRows' =
                                [skippedRows EXCEPT ![t] = onParseError(@)]
                           /\ UNCHANGED <<totalRowsExtracted, buf, pc, terr,
                                          firstFailed>>
                    ELSE IF ~Encodable(m)
                      THEN /\ ExecFail(t,
                                "failed to write row to memory buffer")
                           /\ UNCHANGED <<totalRowsExtracted, skippedRows,
                                          buf>>
                    ELSE /\ buf' = [buf EXCEPT ![t] = bufWrite(@, m)]
                         /\ totalRowsExtracted' =
                              [totalRowsExtracted EXCEPT ![t] = @ + 1]
                         /\ UNCHANGED <<skippedRows, pc, terr, firstFailed>>
       ELSE /\ o = "ok"
            /\ UNCHANGED execVars
            /\ IF NoRowsToLoad(totalRowsExtracted[t], rowNum[t])
                 THEN TaskGoto(t, "ret")
                 ELSE TaskGoto(t, "load_run")
  /\ UNCHANGED <<outcome, startVars, ctxDone, gErr, inferredSchema, loadJob,
                 ops, dest, keptVars>>

\* loader.Run: the buffer is submitted as a truncating load job
executeJob_LoaderRun(t) ==
  /\ pc[t] = "load_run"
  /\ \E o \in CtxOutcomes :
       IF o = "ok"
         THEN /\ LogOp(t, "load", TRUE, {})
              /\ loadJob' = [loadJob EXCEPT ![t] = LoadJob("pending", buf[t])]
              /\ TaskGoto(t, "load_wait")
         ELSE /\ LogOp(t, "load", FALSE,
                       IF o = "canceled" THEN CtxCanceled ELSE {})
              /\ UNCHANGED loadJob
              /\ ExecFail(t, "failed to create BigQuery load job")
  /\ UNCHANGED <<outcome, startVars, ctxDone, gErr, inferredSchema, execVars,
                 dest, keptVars>>

\* the destination finishes a submitted load job: WriteTruncate replaces the
\* table's rows by the buffer, or the job ends with a failure status
BigQuery_JobDone(t) ==
  /\ loadJob[t].st = "pending"
  /\ \E ok \in BOOLEAN :
       IF ok /\ dest[TableOf(t)].exists
         THEN /\ dest' = [dest EXCEPT ![TableOf(t)].rows = loadJob[t].data]
              /\ loadJob' = [loadJob EXCEPT ![t] = LoadJob("ok", <<>>)]
         ELSE /\ UNCHANGED dest
              /\ loadJob' = [loadJob EXCEPT ![t] = LoadJob("failed", <<>>)]
  /\ UNCHANGED <<startVars, ctxDone, gErr, firstFailed, outcome, pc, terr,
                 inferredSchema, execVars, ops, keptVars>>

\* bqJob.Wait and status.Err
executeJob_Wait(t) ==
  /\ pc[t] = "load_wait"
  /\ \E o \in CtxOutcomes :
       IF o # "ok"
         THEN ExecFail(t, "failed to wait for BigQuery job to complete")
       ELSE /\ loadJob[t].st # "pending"
            /\ IF loadJob[t].st = "failed"
                 THEN ExecFail(t, "BigQuery load job failed")
                 ELSE TaskGoto(t, "ret")
  /\ UNCHANGED <<outcome, startVars, ctxDone, gErr, inferredSchema, execVars,
                 loadJob, ops, dest, keptVars>>

\* ------------------------------------------------------------ specification
Worker(t) ==
  \/ runTableJob_Open(t)
  \/ InferSchemaFromMySQL(t)
  \/ createOrUpdateTable_Metadata(t)
  \/ createOrUpdateTable_Create(t)
  \/ createOrUpdateTable_Update(t)
  \/ createOrUpdateTable_Delete(t)
  \/ createOrUpdateTable_Recreate(t)
  \/ executeJob_Query(t)
  \/ executeJob_Next(t)
  \/ executeJob_LoaderRun(t)
  \/ executeJob_Wait(t)
  \/ Go_Return(t)

Next ==
  \/ Start_NewClient
  \/ Start_Go
  \/ Start_Wait
  \/ Parent_Cancel
  \/ \E t \in TaskIds : Worker(t)
  \/ \E t \in TaskIds : BigQuery_JobDone(t)

Spec == Init /\ [][Next]_vars

\* a load job handed over by an earlier call of Start: its table and payload
Stray(n, data) == [table |-> n, data |-> data]

\* the load jobs still pending when Start is entered again, in worker order
RECURSIVE PendingJobs(_)
PendingJobs(t) ==
  IF t > TaskCount THEN <<>>
  ELSE (IF loadJob[t].st = "pending"
          THEN <<Stray(TableOf(t), loadJob[t].data)>> ELSE <<>>)
         \o PendingJobs(t + 1)

\* s without its i-th element
RemoveAt(s, i) == SubSeq(s, 1, i - 1) \o SubSeq(s, i + 1, Len(s))

\* the process is run again against the same sources and destination: Start
\* is entered afresh, the destination keeps what the previous run left, and
\* a load job the previous run submitted and did not see finish goes on at
\* the destination
Start_Again ==
  /\ startPc = "returned"
  /\ run < MaxRuns
  /\ run' = run + 1
  /\ startPc' = "new_client"
  /\ startRet' = Wrapped(Nil)
  /\ spawned' = 0
  /\ ctxDone' = FALSE
  /\ gErr' = NoGroupErr
  /\ firstFailed' = 0
  /\ outcome' = [t \in TaskIds |-> "none"]
  /\ pc' = [t \in TaskIds |-> "idle"]
  /\ strays' = strays \o PendingJobs(1)
  /\ loadJob' = [t \in TaskIds |-> NoJob]
  /\ UNCHANGED <<terr, inferredSchema, execVars, ops, reconRet, njobs,
                 srcCols, srcRows, dest, preSync, logged, probe>>
  /\ jobArgs' = [t \in TaskIds |-> NoArgs]

\* the destination finishes a load job of an earlier run: WriteTruncate
\* replaces the table's rows by that job's payload, or the job fails
BigQuery_StrayDone ==
  \E i \in 1..Len(strays) :
    /\ strays' = RemoveAt(strays, i)
    /\ \E ok \in BOOLEAN :
         dest' = IF ok /\ dest[strays[i].table].exists
                   THEN [dest EXCEPT ![strays[i].table].rows = strays[i].data]
                   ELSE dest
    /\ UNCHANGED <<startVars, ctxDone, gErr, firstFailed, outcome, pc, terr,
                   inferredSchema, execVars, loadJob, ops, reconRet, njobs,
                   run, srcCols, srcRows, probe, preSync, logged, jobArgs>>

NextTask == Next \/ Start_Again \/ BigQuery_StrayDone

\* one worker over every kind of source and destination, run repeatedly
SpecTask == InitTask /\ [][NextTask]_vars

\* the scheduler runs every goroutine that can take a step, and the
\* destination finishes every load job it accepted
Progress ==
  \/ Start_NewClient
  \/ Start_Go
  \/ Start_Wait
  \/ \E t \in TaskIds : Worker(t)
  \/ \E t \in TaskIds : BigQuery_JobDone(t)

\* a run over tables in mixed states: the tables of odd workers are absent
\* and their sources empty, those of even workers hold a retyped schema and
\* their sources one row
InitFair ==
  /\ InitControl(TaskCount)
  /\ probe = NoProbe
  /\ srcCols = [t \in TaskIds |-> ColsIdName]
  /\ srcRows = [t \in TaskIds |->
                  IF t % 2 = 0 THEN <<GoodRow(ColsIdName)>> ELSE <<>>]
  /\ dest = [n \in TableNames |->
               IF \E t \in TaskIds : t % 2 = 1 /\ Pairs[t].table = n
                 THEN AbsentTable
                 ELSE Table(RetypedSchema(InferFields(ColsIdName)), OldRows)]

FairSpec == InitFair /\ [][Next]_vars /\ WF_vars(Progress)

\* ------------------------------------------- functions applied on their own
\* state of the process while a function is applied on its own
Idle ==
  /\ InitControl(1)
  /\ srcCols = [t \in TaskIds |-> ColsIdName]
  /\ srcRows = [t \in TaskIds |-> <<>>]
  /\ dest = [n \in TableNames |-> AbsentTable]

progVars == <<njobs, run, startPc, startRet, spawned, ctxDone, gErr,
              firstFailed, outcome, pc, terr, inferredSchema, rowNum,
              totalRowsExtracted, skippedRows, buf, rowsClosed, strays,
              loadJob, ops, reconRet, srcCols, srcRows, dest, preSync, logged,
              jobArgs>>

\* schemas as the program meets them: column names are unique in a MySQL
\* result of SELECT * and in a BigQuery table
FieldNames == {"a", "b", "c"}
FieldTypes == {"STRING", "INTEGER"}
Fields == {Field(n, ty, req) : n \in FieldNames, ty \in FieldTypes,
                               req \in BOOLEAN}
Schemas ==
  {s \in SeqUpTo(Fields, MaxFields) :
     \A i, j \in 1..Len(s) : i # j => s[i].Name # s[j].Name}

\* SchemasMatch applied to every pair of schemas
InitSchemas ==
  /\ Idle
  /\ \E s1 \in Schemas, s2 \in Schemas :
       probe = [f |-> "SchemasMatch", s1 |-> s1, s2 |-> s2,
                done |-> FALSE, out |-> FALSE]

SchemasMatch_Apply ==
  /\ probe.f = "SchemasMatch"
  /\ ~probe.done
  /\ probe' = [probe EXCEPT !.done = TRUE,
                            !.out = SchemasMatch(probe.s1, probe.s2)]
  /\ UNCHANGED progVars

NextSchemas == SchemasMatch_Apply

SpecSchemas == InitSchemas /\ [][NextSchemas]_vars

\* native type names: the names of the switch and names it does not list
T_JSON     == <<"J","S","O","N">>
T_BLOB     == <<"B","L","O","B">>
T_INTEGER  == <<"I","N","T","E","G","E","R">>
T_YEAR     == <<"Y","E","A","R">>
T_TIME     == <<"T","I","M","E">>
T_UNSIGNED == <<"U","N","S","I","G","N","E","D"," ","I","N","T">>
T_EMPTY    == <<>>
T_ACCENT   == <<"D","A","T","U+00C9">>

KnownTypeNames ==
  {T_VARCHAR, T_CHAR, T_TEXT, T_TINYTEXT, T_MEDIUMTEXT, T_LONGTEXT,
   T_INT, T_TINYINT, T_SMALLINT, T_MEDIUMINT, T_BIGINT,
   T_FLOAT, T_DOUBLE, T_DECIMAL, T_DATE, T_DATETIME, T_TIMESTAMP,
   T_BOOLEAN, T_BOOL}
OtherTypeNames ==
  {T_JSON, T_BLOB, T_INTEGER, T_YEAR, T_TIME, T_UNSIGNED, T_EMPTY,
   T_ACCENT}

\* a name written in upper case, lower case, capitalised, alternating, or
\* in lower case with dotless i for I and long s for S
Cased(name, casing) ==
  [i \in 1..Len(name) |->
     IF casing = "upper" THEN name[i]
     ELSE IF casing = "lower" THEN ToLowerChar(name[i])
     ELSE IF casing = "dotless"
       THEN IF name[i] = "I" THEN "U+0131"
            ELSE IF name[i] = "S" THEN "U+017F"
            ELSE ToLowerChar(name[i])
     ELSE IF casing = "capital"
       THEN IF i = 1 THEN name[i] ELSE ToLowerChar(name[i])
     ELSE IF i % 2 = 0 THEN name[i] ELSE ToLowerChar(name[i])]
Casings == {"upper", "lower", "capital", "alternate", "dotless"}

\* no suffix, a length, a precision and scale
TypeSuffixes == {<<>>, <<"(","5","0",")">>, <<"(","1","0",",","2",")">>}

InitTypes ==
  /\ Idle
  /\ \E name \in KnownTypeNames \cup OtherTypeNames, c \in Casings,
        sfx \in TypeSuffixes :
       probe = [f |-> "mysqlTypeToBigQueryType", name |-> name,
                casing |-> c, suffix |-> sfx,
                arg |-> Cased(name, c) \o sfx, done |-> FALSE, out |-> ""]

mysqlTypeToBigQueryType_Apply ==
  /\ probe.f = "mysqlTypeToBigQueryType"
  /\ ~probe.done
  /\ probe' = [probe EXCEPT !.done = TRUE,
                            !.out = mysqlTypeToBigQueryType(probe.arg)]
  /\ UNCHANGED progVars

NextTypes == mysqlTypeToBigQueryType_Apply

SpecTypes == InitTypes /\ [][NextTypes]_vars

\* column types as the driver can report them: nullability known or not,
\* nullable or not
ColumnTypeChoices ==
  {Col(n, ty, ok, nullable) : n \in {"id"}, ty \in {T_INT, T_VARCHAR},
                              ok \in BOOLEAN, nullable \in BOOLEAN}

\* the mapping loop of InferSchemaFromMySQL applied to every list of columns
InitInfer ==
  /\ Idle
  /\ \E cols \in SeqUpTo(ColumnTypeChoices, MaxFields) :
       probe = [f |-> "InferSchemaFromMySQL", columnTypes |-> cols,
                done |-> FALSE, out |-> <<>>]

InferSchemaFromMySQL_Apply ==
  /\ probe.f = "InferSchemaFromMySQL"
  /\ ~probe.done
  /\ probe' = [probe EXCEPT !.done = TRUE,
                            !.out = InferFields(probe.columnTypes)]
  /\ UNCHANGED progVars

NextInfer == InferSchemaFromMySQL_Apply

SpecInfer == InitInfer /\ [][NextInfer]_vars

\* concurrent run in which the sources hold one row each or none at all, one
\* pair finds its destination table with a field of another type (update, and
\* recreate when the update is refused) and the others find theirs absent
\* (first sync)
InitPairs ==
  /\ InitControl(TaskCount)
  /\ probe = NoProbe
  /\ \E k \in TaskIds, rs \in {<<>>, <<GoodRow(ColsIdName)>>} :
       /\ srcCols = [t \in TaskIds |-> ColsIdName]
       /\ srcRows = [t \in TaskIds |-> rs]
       /\ dest = [n \in TableNames |->
                    IF n = Pairs[k].table
                      THEN Table(RetypedSchema(InferFields(ColsIdName)),
                                 OldRows)
                      ELSE AbsentTable]

SpecPairs == InitPairs /\ [][Next]_vars

\* the connection strings and database names the configuration can hold
ConnStrings == {"dsn_a", "dsn_b"}
DBNames == {"db_a", "db_b"}

\* the sources list Start builds from the configuration
sourcesOf(cfg) ==
  << [Name |-> Sources[1].Name,
      DSN |-> cfg.SalesforceDBConnString,
      DBName |-> cfg.SalesforceDBName,
      SourceTables |-> Sources[1].SourceTables],
     [Name |-> Sources[2].Name,
      DSN |-> cfg.FinanceDBConnString,
      DBName |-> cfg.FinanceDBName,
      SourceTables |-> Sources[2].SourceTables] >>

\* the closure refers to the loop variable src, which every iteration of the
\* outer loop assigns, in place of the copy of its own iteration
closureRefs_LoopVariable(si, ti) ==
  [source |-> [var |-> "src", at |-> 0], table |-> [var |-> "table", at |-> ti]]

\* the variables the closure passed to g.Go refers to: source and table as
\* declared in the iteration that creates it (the at-th variable of the name)
closureRefs(si, ti) ==
  [source |-> [var |-> "source", at |-> si],
   table |-> [var |-> "table", at |-> ti]]

\* the value a closure reads when it runs
Deref(ref) ==
  IF ref.var = "src" THEN probe.src
  ELSE IF ref.var = "source" THEN probe.source[ref.at]
  ELSE probe.table[ref.at]

NoSource == [Name |-> "", DSN |-> "", DBName |-> "", SourceTables |-> <<>>]

\* the two loops of Start over the sources list of every configuration: the
\* loop variables, the variables source and table declared so far, and the
\* goroutines started by g.Go
InitSpawn ==
  /\ Idle
  /\ \E dsn1 \in ConnStrings, dsn2 \in ConnStrings,
        db1 \in DBNames, db2 \in DBNames :
       LET cfg == [SalesforceDBConnString |-> dsn1,
                   SalesforceDBName |-> db1,
                   FinanceDBConnString |-> dsn2,
                   FinanceDBName |-> db2]
       IN probe = [f |-> "Start", cfg |-> cfg, sources |-> sourcesOf(cfg),
                   i |-> 0, j |-> 0, src |-> NoSource, tableName |-> "",
                   source |-> <<>>, table |-> <<>>, goroutines |-> <<>>,
                   looped |-> FALSE]

\* for _, src := range sources, with source := src; the range ends after the
\* last source
Start_RangeSources ==
  /\ probe.f = "Start"
  /\ ~probe.looped
  /\ IF probe.i = 0 THEN TRUE
     ELSE probe.j = Len(probe.source[probe.i].SourceTables)
  /\ IF probe.i < Len(probe.sources)
       THEN probe' = [probe EXCEPT
                        !.i = @ + 1,
                        !.j = 0,
                        !.src = probe.sources[probe.i + 1],
                        !.source = Append(@, probe.sources[probe.i + 1])]
       ELSE probe' = [probe EXCEPT !.looped = TRUE]
  /\ UNCHANGED progVars

\* for _, tableName := range source.SourceTables, with table := tableName,
\* the logger of the job and g.Go of the closure
Start_RangeTables ==
  /\ probe.f = "Start"
  /\ ~probe.looped
  /\ probe.i > 0
  /\ probe.j < Len(probe.source[probe.i].SourceTables)
  /\ LET name == probe.source[probe.i].SourceTables[probe.j + 1]
     IN probe' = [probe EXCEPT
                    !.j = @ + 1,
                    !.tableName = name,
                    !.table = Append(@, name),
                    !.goroutines =
                       Append(@, [refs |-> closureRefs(Len(probe.source),
                                                       Len(probe.table) + 1),
                                  jobLogger |-> name,
                                  called |-> FALSE,
                                  args |-> [source |-> NoSource,
                                           table |-> ""]])]
  /\ UNCHANGED progVars

\* the goroutine of the k-th g.Go runs its closure: it reads source and table
\* and calls runTableJob with them
Go_Call(k) ==
  /\ probe.f = "Start"
  /\ k \in 1..Len(probe.goroutines)
  /\ ~probe.goroutines[k].called
  /\ probe' = [probe EXCEPT
                 !.goroutines[k].called = TRUE,
                 !.goroutines[k].args =
                    [source |-> Deref(probe.goroutines[k].refs.source),
                     table |-> Deref(probe.goroutines[k].refs.table)]]
  /\ UNCHANGED progVars

NextSpawn ==
  \/ Start_RangeSources
  \/ Start_RangeTables
  \/ \E k \in 1..Len(Pairs) : Go_Call(k)

SpecSpawn == InitSpawn /\ [][NextSpawn]_vars

\* ------------------------------------------------------------------ claims
Started(t) == t \in 1..njobs
StartWaited == startPc = "returned" /\ spawned > 0

\* C1: Start returns nil only if every worker ended in success; a run in
\* which some runTableJob returned an error makes Start return that kind of
\* non-nil error.
C1_NilOnlyIfAllSucceed ==
  startPc = "returned" =>
    /\ (startRet = Wrapped(Nil) =>
          \A t \in TaskIds : Started(t) => outcome[t] = "success")
    /\ ((\E t \in TaskIds : outcome[t] = "failure") =>
          startRet # Wrapped(Nil))

C1_Witness ==
  /\ startPc = "returned"
  /\ startRet = Wrapped(Nil)
  /\ njobs >= 2
  /\ \A t \in TaskIds : Started(t) => outcome[t] = "success"

\* C2: Start does not return from g.Wait before every worker has reached a
\* terminal state, and once a worker's operation has failed the run ends:
\* Start returns a non-nil error with every worker terminated.
C2_FailedRunTerminates ==
  /\ [](StartWaited => \A t \in TaskIds : Started(t) => pc[t] = "done")
  /\ ((firstFailed # 0) ~>
        (/\ startPc = "returned"
         /\ startRet # Wrapped(Nil)
         /\ \A t \in TaskIds : Started(t) => pc[t] = "done"))

\* the run failed while a sibling of the failed worker ended in success
C2_Witness ==
  /\ startPc = "returned"
  /\ startRet # Wrapped(Nil)
  /\ \E t, u \in TaskIds :
       /\ Started(t) /\ Started(u)
       /\ outcome[t] = "failure"
       /\ outcome[u] = "success"

\* C3 as stated: the error Start returns is the error of the worker whose
\* operation failed first in time.
C3_FirstInTime ==
  (StartWaited /\ gErr # NoGroupErr) => gErr.task = firstFailed

\* C3 amended: the error Start returns is the first error recorded in the
\* group, that of the first failing worker whose closure returned; it is set
\* by that worker, is never replaced by a later failure, and is what Start
\* returns.
C3_FirstRecorded ==
  /\ [][/\ gErr # NoGroupErr => gErr' = gErr
        /\ \A t \in TaskIds :
             (gErr = NoGroupErr /\ outcome[t] # "failure"
                /\ outcome'[t] = "failure")
               => (gErr'.task = t /\ gErr'.err = Wrapped(terr[t]))]_vars
  /\ [](StartWaited => startRet = gErr.err)
  /\ [](gErr # NoGroupErr => outcome[gErr.task] = "failure")

\* two workers failed, the one that failed later in time was recorded first
C3_Witness ==
  /\ StartWaited
  /\ \E t, u \in TaskIds :
       /\ t # u
       /\ outcome[t] = "failure" /\ outcome[u] = "failure"
       /\ firstFailed = t
       /\ gErr.task = u
       /\ startRet = gErr.err

\* positions at which a worker is about to make a blocking call
BlockingPcs ==
  {"infer", "metadata", "create", "update", "delete", "recreate",
   "exec_query", "next", "load_run", "load_wait"}

\* C4: a failed worker has cancelled the shared context, and once it is
\* cancelled every blocking operation a worker starts ends in an error.
C4_CancelStopsEveryOperation ==
  /\ []((\E t \in TaskIds : outcome[t] = "failure") => ctxDone)
  /\ [][\A t \in TaskIds :
          (/\ ctxDone
           /\ pc[t] \in BlockingPcs
           /\ (pc'[t] # pc[t] \/ rowNum'[t] # rowNum[t]))
            => (pc'[t] = "ret" /\ terr'[t] # Nil)]_vars

\* the set of (name, type) pairs of a schema
NameTypes(schema) ==
  {<<schema[i].Name, schema[i].Type>> : i \in 1..Len(schema)}
SameFields(s1, s2) ==
  Len(s1) = Len(s2) /\ NameTypes(s1) = NameTypes(s2)

LastOp(t) == ops[t][Len(ops[t])]
ReconcileReturnedErr(t) == pc[t] = "ret" /\ terr[t].stage = "reconcile"

\* C5: when createOrUpdateTable has returned success the table exists with
\* the fields of the given schema and the last destination call it made
\* succeeded; when the last destination call failed with nothing left to
\* try, it has returned an error.
C5_SuccessMeansMatchingTable ==
  \A t \in TaskIds :
    /\ pc[t] = "exec_query" =>
         /\ dest[TableOf(t)].exists
         /\ SameFields(dest[TableOf(t)].schema, inferredSchema[t])
         /\ LastOp(t).ok
    /\ ReconcileReturnedErr(t) => ~LastOp(t).ok

\* createOrUpdateTable succeeded through the destructive recreate
C5_Witness ==
  \E t \in TaskIds :
    /\ pc[t] = "exec_query"
    /\ Len(ops[t]) = 4
    /\ ops[t][3] = Op("delete", TRUE, {})
    /\ ops[t][4] = Op("create", TRUE, {})
    /\ SameFields(dest[TableOf(t)].schema, inferredSchema[t])

\* the classification of an update error as the claim words it
ClaimCritical(text) ==
  /\ "invalid" \in text
  /\ ("changed type" \in text \/ "is missing" \in text)

\* C6: a delete is issued only as the third call, after Metadata succeeded
\* and the update failed with a critical error; an update that failed with
\* any other error is the last call made and the function has returned an
\* error.
C6_DeleteOnlyAfterCriticalUpdateFailure ==
  \A t \in TaskIds : \A i \in 1..Len(ops[t]) :
    /\ ops[t][i].op = "delete" =>
         /\ i = 3
         /\ ops[t][1] = Op("metadata", TRUE, {})
         /\ ops[t][2].op = "update"
         /\ ~ops[t][2].ok
         /\ ClaimCritical(ops[t][2].text)
    /\ (ops[t][i].op = "update" /\ ~ops[t][i].ok
          /\ ~ClaimCritical(ops[t][i].text)) =>
         /\ i = Len(ops[t])
         /\ ReconcileReturnedErr(t)

\* the update failed with a critical error and the table has been deleted
C6_Witness ==
  \E t \in TaskIds :
    /\ pc[t] = "recreate"
    /\ ops[t] = <<Op("metadata", TRUE, {}),
                  Op("update", FALSE, {"invalid", "is missing"}),
                  Op("delete", TRUE, {})>>
    /\ ~dest[TableOf(t)].exists

LastReconNil(t) ==
  Len(reconRet[t]) > 0 /\ reconRet[t][Len(reconRet[t])] = "nil"

\* C7: when the previous createOrUpdateTable call for a table returned
\* success, the next call with the same schema makes the Metadata call and
\* nothing else, leaves the destination as it is, and returns success
\* whenever that Metadata call is answered.
C7_SecondCallIsNoOp ==
  [][\A t \in TaskIds :
       (pc[t] = "metadata" /\ LastReconNil(t) /\ pc'[t] # "metadata") =>
         /\ Len(ops'[t]) = 1
         /\ ops'[t][1].op = "metadata"
         /\ dest' = dest
         /\ pc'[t] \in {"exec_query", "ret"}
         /\ ops'[t][1].ok =>
              (pc'[t] = "exec_query" /\ LastReconNil(t)')]_vars

\* two calls in a row returned success, the second with Metadata alone
C7_Witness ==
  \E t \in TaskIds :
    /\ run = 2
    /\ reconRet[t] = <<"nil", "nil">>
    /\ pc[t] = "exec_query"
    /\ ops[t] = <<Op("metadata", TRUE, {})>>

\* C8: SchemasMatch gives the same answer with its arguments swapped, and
\* answers true exactly when the two schemas hold the same (name, type)
\* pairs, whatever their order.
C8_SymmetricOrderFree ==
  (probe.f = "SchemasMatch" /\ probe.done) =>
    /\ probe.out = SchemasMatch(probe.s2, probe.s1)
    /\ probe.out = SameFields(probe.s1, probe.s2)

\* the same two fields in opposite orders are reported equal
C8_Witness ==
  /\ probe.f = "SchemasMatch"
  /\ probe.done
  /\ probe.out
  /\ Len(probe.s1) = 2
  /\ probe.s1[1].Name = probe.s2[2].Name
  /\ probe.s1[2].Name = probe.s2[1].Name

\* the documented mapping of native type names
DocumentedType(name) ==
  CASE name \in {T_VARCHAR, T_CHAR, T_TEXT, T_TINYTEXT, T_MEDIUMTEXT,
                 T_LONGTEXT} -> "STRING"
    [] name \in {T_INT, T_TINYINT, T_SMALLINT, T_MEDIUMINT, T_BIGINT}
         -> "INTEGER"
    [] name \in {T_FLOAT, T_DOUBLE, T_DECIMAL} -> "FLOAT"
    [] name = T_DATE -> "DATE"
    [] name \in {T_DATETIME, T_TIMESTAMP} -> "TIMESTAMP"
    [] name \in {T_BOOLEAN, T_BOOL} -> "BOOLEAN"
    [] OTHER -> "STRING"

\* C9: for a known name in any letter case, with or without a parenthesized
\* suffix, mysqlTypeToBigQueryType returns the documented type; for any
\* other name it returns STRING.
C9_TotalTypeMapping ==
  (probe.f = "mysqlTypeToBigQueryType" /\ probe.done) =>
    probe.out = DocumentedType(probe.name)

\* decimal(10,2) in lower case maps to FLOAT
C9_Witness ==
  /\ probe.f = "mysqlTypeToBigQueryType"
  /\ probe.done
  /\ probe.name = T_DECIMAL
  /\ probe.casing = "lower"
  /\ probe.suffix = <<"(","1","0",",","2",")">>
  /\ probe.out = "FLOAT"

HasLoadOp(t) == \E i \in 1..Len(ops[t]) : ops[t][i].op = "load"

\* C10: a worker that has extracted zero rows never gets to the load: no
\* load is submitted, and when row iteration ends without a cursor error
\* executeJob returns success.
C10_ZeroRowsNoLoad ==
  /\ [](\A t \in TaskIds :
          (pc[t] # "done" /\ totalRowsExtracted[t] = 0) =>
            /\ ~HasLoadOp(t)
            /\ loadJob[t] = NoJob
            /\ pc[t] \notin {"load_run", "load_wait"})
  /\ [][\A t \in TaskIds :
          (/\ pc[t] = "next"
           /\ pc'[t] # "next"
           /\ totalRowsExtracted[t] = 0
           /\ terr'[t].why \notin {"error during row iteration",
                                   "failed to write row to memory buffer"})
            => (/\ pc'[t] = "ret"
                /\ terr'[t] = Nil
                /\ ops'[t] = ops[t]
                /\ loadJob' = loadJob)]_vars

\* every source row failed to scan and executeJob returned success, no load
C10_Witness ==
  \E t \in TaskIds :
    /\ pc[t] = "ret"
    /\ terr[t] = Nil
    /\ rowNum[t] > 0
    /\ skippedRows[t] = rowNum[t]
    /\ totalRowsExtracted[t] = 0
    /\ ~HasLoadOp(t)

\* the task of worker t has ended: runTableJob is about to return
TaskEnded(t) == pc[t] = "ret"
TaskSucceeded(t) == pc[t] = "ret" /\ terr[t] = Nil

\* C11: a task that ends in success with zero rows extracted has made no
\* load call, has no load job, and its destination table holds the rows it
\* held when the task started.
C11_ZeroRowsLeaveTableIntact ==
  \A t \in TaskIds :
    (TaskSucceeded(t) /\ totalRowsExtracted[t] = 0) =>
      /\ ~HasLoadOp(t)
      /\ loadJob[t] = NoJob
      /\ dest[TableOf(t)].rows = preSync[t].rows

\* the records executeJob is to have buffered after iterating over rows: one
\* per row that rows.Scan could read, in iteration order
RECURSIVE ParsedRecords(_, _)
ParsedRecords(cols, rows) ==
  IF rows = <<>> THEN <<>>
  ELSE IF Head(rows).scanOK
    THEN <<ToSaveable(ParseDynamicRow(ColNames(cols), Head(rows).vals,
                                      DateFormat))>>
           \o ParsedRecords(cols, Tail(rows))
  ELSE ParsedRecords(cols, Tail(rows))

ScanFailures(rows) == Cardinality({i \in 1..Len(rows) : ~rows[i].scanOK})

\* the row loop of executeJob has ended without a cursor or encoding error
IterationEnded(t) == pc[t] \in {"load_run", "load_wait"} \/ TaskSucceeded(t)

\* C12: a row that fails to parse is counted and skipped and the loop goes
\* on with the next row; throughout the loop rows extracted + rows skipped =
\* rows iterated and the buffer holds one record per extracted row; when the
\* loop has ended every row was iterated, the skip count is the number of
\* rows that failed to parse, the buffer holds the records of the other rows
\* in order, and with at least one row extracted the task goes on to submit
\* the load unless the cursor reports an error.
C12_ParseFailuresAreSkipped ==
  /\ [](\A t \in TaskIds :
          /\ pc[t] \in {"next", "load_run", "load_wait"} =>
               /\ totalRowsExtracted[t] + skippedRows[t] = rowNum[t]
               /\ Len(buf[t]) = totalRowsExtracted[t]
          /\ IterationEnded(t) =>
               /\ rowNum[t] = Len(srcRows[t])
               /\ totalRowsExtracted[t] + skippedRows[t] = rowNum[t]
               /\ skippedRows[t] = ScanFailures(srcRows[t])
               /\ buf[t] = ParsedRecords(srcCols[t], srcRows[t]))
  /\ [][\A t \in TaskIds :
          /\ (/\ pc[t] = "next"
              /\ rowNum'[t] = rowNum[t] + 1
              /\ ~srcRows[t][rowNum[t] + 1].scanOK)
               => /\ pc'[t] = "next"
                  /\ terr'[t] = Nil
                  /\ skippedRows'[t] = skippedRows[t] + 1
                  /\ totalRowsExtracted'[t] = totalRowsExtracted[t]
                  /\ buf'[t] = buf[t]
          /\ (/\ pc[t] = "next"
              /\ pc'[t] # "next"
              /\ terr'[t] = Nil
              /\ totalRowsExtracted[t] >= 1)
               => pc'[t] = "load_run"]_vars

\* the first row failed to scan, the second was buffered, and the task is
\* about to submit the load
C12_Witness ==
  \E t \in TaskIds :
    /\ pc[t] = "load_run"
    /\ Len(srcRows[t]) = 2
    /\ ~srcRows[t][1].scanOK
    /\ skippedRows[t] = 1
    /\ totalRowsExtracted[t] = 1
    /\ Len(buf[t]) = 1

ColumnSet(cols) == {cols[i].Name : i \in 1..Len(cols)}

\* C13: the record appended to the buffer for a parsed row has exactly the
\* row's columns as keys; a column whose source value is null is a key
\* mapped to null, and a column whose source value is not null is a key
\* mapped to a value that is not null.
C13_KeysAreColumnsNullsExplicit ==
  [][\A t \in TaskIds :
       (pc[t] = "next" /\ Len(buf'[t]) = Len(buf[t]) + 1) =>
         LET row == srcRows[t][rowNum[t] + 1]
             rec == buf'[t][Len(buf'[t])]
             cols == srcCols[t]
         IN /\ DOMAIN rec = ColumnSet(cols)
            /\ \A i \in 1..Len(cols) :
                 IF row.vals[i].k = "nil"
                   THEN rec[cols[i].Name] = NullValue
                   ELSE rec[cols[i].Name].k # "nil"]_vars

\* a buffered record of a row whose name column was null
C13_Witness ==
  \E t \in TaskIds :
    /\ Len(buf[t]) >= 1
    /\ DOMAIN buf[t][1] = {"id", "name"}
    /\ buf[t][1]["name"] = NullValue
    /\ buf[t][1]["id"] = IntValue

\* every source row of the task can be scanned and serialized
AllRowsParse(t) ==
  /\ Len(srcRows[t]) >= 1
  /\ \A i \in 1..Len(srcRows[t]) :
       /\ srcRows[t][i].scanOK
       /\ Encodable(ToSaveable(ParseDynamicRow(ColNames(srcCols[t]),
                                               srcRows[t][i].vals,
                                               DateFormat)))

\* error texts of the calls to the source and to the destination that a
\* task starting from an absent table makes
CallFailures ==
  {"failed to open DB connection for schema inference",
   "schema inference query failed",
   "failed to get column types for inference",
   "failed to get table metadata",
   "failed to create table",
   "failed to query database",
   "error during row iteration",
   "failed to create BigQuery load job",
   "failed to wait for BigQuery job to complete",
   "BigQuery load job failed"}

\* C14: a task whose destination table was absent at its start and whose
\* N >= 1 source rows all parse ends in an error only when one of its calls
\* to the source or the destination failed; when it ends in success it has
\* made exactly the calls Metadata (not found), Create, load, the table
\* exists with one field per source column (same name, the mapped type,
\* required exactly when the driver reports nullability and reports not
\* nullable), N rows were extracted, none skipped, the load job succeeded
\* and the table holds the N records in source order.
C14_EndToEndFirstSync ==
  \A t \in TaskIds :
    (preSync[t] = AbsentTable /\ AllRowsParse(t)) =>
      /\ (TaskEnded(t) /\ terr[t] # Nil) => terr[t].why \in CallFailures
      /\ TaskSucceeded(t) =>
           /\ ops[t] = <<Op("metadata", FALSE, {"Not found"}),
                         Op("create", TRUE, {}),
                         Op("load", TRUE, {})>>
           /\ dest[TableOf(t)].exists
           /\ Len(dest[TableOf(t)].schema) = Len(srcCols[t])
           /\ \A i \in 1..Len(srcCols[t]) :
                LET f == dest[TableOf(t)].schema[i]
                    c == srcCols[t][i]
                IN /\ f.Name = c.Name
                   /\ f.Type = DocumentedType(c.DatabaseTypeName)
                   /\ f.Required = (c.ok /\ ~c.nullable)
           /\ totalRowsExtracted[t] = Len(srcRows[t])
           /\ skippedRows[t] = 0
           /\ loadJob[t].st = "ok"
           /\ Len(dest[TableOf(t)].rows) = Len(srcRows[t])
           /\ dest[TableOf(t)].rows = ParsedRecords(srcCols[t], srcRows[t])

\* first sync of a two-column table with two rows, one of them with a null
\* name, ended in success
C14_Witness ==
  \E t \in TaskIds :
    /\ TaskSucceeded(t)
    /\ run = 1
    /\ preSync[t] = AbsentTable
    /\ srcCols[t] = ColsIdName
    /\ Len(srcRows[t]) = 2
    /\ srcRows[t][1] = GoodRow(ColsIdName)
    /\ Len(dest[TableOf(t)].rows) = 2
    /\ dest[TableOf(t)].schema =
         <<Field("id", "INTEGER", TRUE), Field("name", "STRING", FALSE)>>

LoadCompleted(t) == loadJob[t].st = "ok"

\* C15: a task that ends in an error without a completed load leaves the
\* destination table with the rows it held when the task started.
C15_AbortedTaskKeepsContents ==
  \A t \in TaskIds :
    (TaskEnded(t) /\ terr[t] # Nil /\ ~LoadCompleted(t)) =>
      dest[TableOf(t)].rows = preSync[t].rows

\* C16: once the load of a task has completed, no later step of the run (of
\* that task, of another task, of Start) changes its destination table's
\* schema or rows: the table exists and holds the loaded records from then
\* on, also after Start has returned an error.
C16_CommittedTablesAreKept ==
  /\ [][\A t \in TaskIds :
          (LoadCompleted(t) /\ run' = run) =>
            dest'[TableOf(t)] = dest[TableOf(t)]]_vars
  /\ [](\A t \in TaskIds :
          LoadCompleted(t) =>
            /\ dest[TableOf(t)].exists
            /\ dest[TableOf(t)].rows = ParsedRecords(srcCols[t], srcRows[t]))

\* Start returned an error after one task failed, and the table of another
\* task holds what that task loaded
C16_Witness ==
  /\ StartWaited
  /\ startRet # Wrapped(Nil)
  /\ \E t, u \in TaskIds :
       /\ outcome[t] = "failure"
       /\ outcome[u] = "success"
       /\ LoadCompleted(u)
       /\ dest[TableOf(u)].rows = ParsedRecords(srcCols[u], srcRows[u])
       /\ dest[TableOf(u)].rows # preSync[u].rows

\* the errors of a task that come from a handle that cannot be opened or
\* used: sql.Open, the Metadata call on the destination, QueryContext and the
\* cursor of the source query
IsConnectionError(e) ==
  \/ e.stage = "open"
  \/ /\ e.stage = "reconcile"
     /\ e.why = "failed to get table metadata"
  \/ /\ e.stage = "execute"
     /\ e.why \in {"failed to query database", "error during row iteration"}

\* worker t returns from runTableJob with a connection error
ConnectionErrorReturns(t) ==
  /\ pc[t] = "ret"
  /\ IsConnectionError(terr[t])
  /\ pc'[t] = "done"

\* worker u has read its source to the end without a record to load
ReadToEndNothingToLoad(u) ==
  /\ pc[u] = "next"
  /\ ~rowsClosed[u]
  /\ rowNum[u] = Len(srcRows[u])
  /\ totalRowsExtracted[u] = 0

\* C17 as stated: a connection error ends its own task with an error and
\* leaves the shared context, hence the siblings, alone.
C17_ConnectionErrorStaysLocal ==
  [][\A t \in TaskIds :
       ConnectionErrorReturns(t) =>
         /\ outcome'[t] = "failure"
         /\ ctxDone' = ctxDone]_vars

\* C17 amended: a connection error ends its own task with an error and, like
\* every other task error, is offered to the group, which keeps it when it
\* holds none, and cancels the shared context; the return changes no
\* sibling's position, error or result. A sibling that has ended in success
\* stays so, and a sibling still running can still end in success whether or
\* not the context is cancelled: one that has read its source to the end
\* without a record to load can return nil, and a worker that returns nil
\* ends in success. A connection error always belongs to a worker that is
\* about to return, and when the destination client cannot be created Start
\* returns before any worker is started.
C17_ConnectionErrorCancelsRun ==
  /\ [][\A t \in TaskIds :
          (pc[t] = "ret" /\ terr[t] # Nil /\ pc'[t] = "done") =>
            /\ outcome'[t] = "failure"
            /\ ctxDone'
            /\ gErr' # NoGroupErr
            /\ (gErr = NoGroupErr =>
                  gErr' = [task |-> t, err |-> Wrapped(terr[t])])
            /\ (gErr # NoGroupErr => gErr' = gErr)
            /\ \A u \in TaskIds \ {t} :
                 /\ pc'[u] = pc[u]
                 /\ terr'[u] = terr[u]
                 /\ outcome'[u] = outcome[u]]_vars
  /\ [][\A u \in TaskIds :
          /\ (outcome[u] = "success" /\ run' = run) =>
               outcome'[u] = "success"
          /\ (pc[u] = "ret" /\ terr[u] = Nil /\ pc'[u] = "done") =>
               outcome'[u] = "success"]_vars
  /\ [](\A u \in TaskIds :
          /\ ReadToEndNothingToLoad(u) =>
               ENABLED (/\ executeJob_Next(u)
                        /\ pc'[u] = "ret"
                        /\ terr'[u] = Nil)
          /\ (pc[u] = "ret" /\ terr[u] = Nil) =>
               ENABLED (Go_Return(u) /\ outcome'[u] = "success")
          /\ IsConnectionError(terr[u]) => pc[u] = "ret")
  /\ [](startRet = Wrapped(Err("start", "failed to create BigQuery client"))
          => spawned = 0 /\ \A u \in TaskIds : pc[u] = "idle")

\* the group recorded the failed sql.Open of one worker and cancelled the
\* context, while a sibling that had passed QueryContext before is at the
\* end of its empty source and still to return
C17_Witness ==
  /\ ctxDone
  /\ gErr # NoGroupErr
  /\ gErr.err = "open"
  /\ firstFailed = gErr.task
  /\ outcome[gErr.task] = "failure"
  /\ \E u \in TaskIds \ {gErr.task} :
       /\ ReadToEndNothingToLoad(u)
       /\ srcRows[u] = <<>>
       /\ outcome[u] = "none"

\* the worker has deleted and recreated its destination table
Recreated(t) ==
  \E i \in 1..(Len(ops[t]) - 1) :
    /\ ops[t][i] = Op("delete", TRUE, {})
    /\ ops[t][i + 1] = Op("create", TRUE, {})

LoadSubmitted(t) ==
  \E i \in 1..Len(ops[t]) : ops[t][i] = Op("load", TRUE, {})

\* C18: a task that has deleted and recreated its destination table has
\* submitted a truncating load of that table by the time it ends in success.
C18_RecreateIsFollowedByLoad ==
  \A t \in TaskIds :
    (TaskSucceeded(t) /\ Recreated(t)) => LoadSubmitted(t)

\* the stage of runTableJob a position belongs to
StageOf(p) ==
  CASE p = "idle" -> 0
    [] p = "open" -> 1
    [] p = "infer" -> 2
    [] p \in {"metadata", "create", "update", "delete", "recreate"} -> 3
    [] p \in {"exec_query", "next"} -> 4
    [] p \in {"load_run", "load_wait"} -> 5
    [] p = "ret" -> 6
    [] OTHER -> 7

\* a failed destination call that createOrUpdateTable answers with another
\* call: Metadata reporting the table absent, Update failing critically
Handled(o) ==
  \/ (o.op = "metadata" /\ "Not found" \in o.text)
  \/ (o.op = "update" /\ ClaimCritical(o.text))

\* C19: within a run a worker's position moves through the stages schema
\* inference, reconciliation, extraction, load in that order, one stage at
\* a time, and never back; an error ends the task at once; a stage is
\* entered only after the stage before it succeeded; a failed destination
\* call that is not answered by a fallback is the last call the task makes;
\* a task that failed at inference has made no destination call, and no
\* step of a worker up to the end of inference changes a table; a task that
\* failed at reconciliation has read no source row and has no load.
C19_StagesInOrderFailStop ==
  /\ [][\A t \in TaskIds :
          (run' = run /\ pc'[t] # pc[t]) =>
            /\ StageOf(pc'[t]) >= StageOf(pc[t])
            /\ pc'[t] \notin {"ret", "done"} =>
                 StageOf(pc'[t]) <= StageOf(pc[t]) + 1
            /\ pc[t] = "ret" => pc'[t] = "done"
            /\ terr'[t] # Nil =>
                 (pc'[t] = "ret" /\ StageOf(pc[t]) \in 1..5)
            /\ (pc'[t] = "ret" /\ StageOf(pc[t]) <= 3) =>
                 terr'[t] # Nil
            /\ StageOf(pc[t]) \in 1..2 => dest' = dest]_vars
  /\ [](\A t \in TaskIds :
          /\ StageOf(pc[t]) \in 3..5 =>
               inferredSchema[t] = InferFields(srcCols[t])
          /\ StageOf(pc[t]) \in 4..5 =>
               /\ LastReconNil(t)
               /\ Len(ops[t]) >= 1
               /\ \A i \in 1..Len(ops[t]) :
                    ops[t][i].op # "load" =>
                      (ops[t][i].ok \/ Handled(ops[t][i]))
          /\ StageOf(pc[t]) = 5 => rowNum[t] = Len(srcRows[t])
          /\ \A i \in 1..Len(ops[t]) :
               (~ops[t][i].ok /\ ~Handled(ops[t][i])) =>
                 /\ i = Len(ops[t])
                 /\ pc[t] = "ret"
                 /\ terr[t] # Nil
          /\ (pc[t] = "ret" /\ terr[t].stage \in {"open", "infer"}) =>
               /\ ops[t] = <<>>
               /\ rowNum[t] = 0
          /\ (pc[t] = "ret" /\ terr[t].stage = "reconcile") =>
               /\ rowNum[t] = 0
               /\ buf[t] = <<>>
               /\ ~HasLoadOp(t)
               /\ loadJob[t] = NoJob)

\* the update failed with an ordinary error: the task ended there, with no
\* row read and no load
C19_Witness ==
  \E t \in TaskIds :
    /\ pc[t] = "ret"
    /\ terr[t].stage = "reconcile"
    /\ ops[t] = <<Op("metadata", TRUE, {}), Op("update", FALSE, {"invalid"})>>
    /\ rowNum[t] = 0
    /\ loadJob[t] = NoJob

\* row i was delivered and parsed: its scan succeeds, and the cursor was not
\* closed between the rows.Next that delivered it and its scan
ParsedOk(t, i) ==
  /\ srcRows[t][i].scanOK
  /\ ~(rowsClosed[t] /\ i = rowNum[t])

\* among the rows iterated so far there is one that was scanned and cannot
\* be serialized
EncodeFailed(t) ==
  \E i \in 1..rowNum[t] :
    /\ ParsedOk(t, i)
    /\ ~Encodable(ToSaveable(ParseDynamicRow(ColNames(srcCols[t]),
                                             srcRows[t][i].vals,
                                             DateFormat)))

\* C20: once a scanned row cannot be serialized the task has ended with
\* that error and without any load, whatever the buffer holds; a task that
\* ended on a cursor error has no load either; a failed load submission, a
\* failed wait and a load job that ended in failure each leave the task
\* ended with an error: a task ends in success only with every row iterated
\* and, when it has submitted a load, with that load job succeeded.
C20_ExecuteFailuresAreErrors ==
  \A t \in TaskIds :
    /\ EncodeFailed(t) =>
         /\ pc[t] = "ret"
         /\ terr[t] = Err("execute", "failed to write row to memory buffer")
         /\ ~HasLoadOp(t)
         /\ loadJob[t] = NoJob
    /\ (pc[t] = "ret" /\ terr[t].why = "error during row iteration") =>
         /\ ~HasLoadOp(t)
         /\ loadJob[t] = NoJob
    /\ (Len(ops[t]) >= 1 /\ LastOp(t).op = "load" /\ ~LastOp(t).ok) =>
         /\ pc[t] = "ret"
         /\ terr[t] = Err("execute", "failed to create BigQuery load job")
         /\ loadJob[t] = NoJob
    /\ (pc[t] = "ret" /\ loadJob[t].st \in {"pending", "failed"}) =>
         /\ terr[t].stage = "execute"
         /\ terr[t].why \in {"failed to wait for BigQuery job to complete",
                             "BigQuery load job failed"}
    /\ TaskSucceeded(t) =>
         /\ rowNum[t] = Len(srcRows[t])
         /\ totalRowsExtracted[t] > 0 => LoadSubmitted(t)
         /\ HasLoadOp(t) => (LoadSubmitted(t) /\ LoadCompleted(t))

\* the first row was buffered, the second could not be serialized: the task
\* ended with the error and no load
C20_Witness ==
  \E t \in TaskIds :
    /\ pc[t] = "ret"
    /\ terr[t].why = "failed to write row to memory buffer"
    /\ Len(buf[t]) = 1
    /\ rowNum[t] = 2
    /\ ~HasLoadOp(t)

\* the worker's current createOrUpdateTable call has logged the warning that
\* all existing data will be deleted
DeleteWarned(t) ==
  \E i \in 1..Len(logged[t]) : logged[t][i] = LogEvent("warn", MsgDeleteAll)

\* C21: a worker about to issue the delete of a destructive recreate has
\* logged the data-loss warning in the same call; every step that issues a
\* delete, and every step in which a destination table ceases to exist,
\* starts in a state in which the worker of that table has logged it.
C21_DeleteIsWarnedFirst ==
  /\ [](\A t \in TaskIds : pc[t] = "delete" => DeleteWarned(t))
  /\ [][\A t \in TaskIds :
          (/\ Len(ops'[t]) = Len(ops[t]) + 1
           /\ ops'[t][Len(ops'[t])].op = "delete") => DeleteWarned(t)]_vars
  /\ [][\A t \in TaskIds :
          (/\ pc[t] # "idle"
           /\ dest[TableOf(t)].exists
           /\ ~dest'[TableOf(t)].exists) => DeleteWarned(t)]_vars

\* the table has been deleted after the warning was logged
C21_Witness ==
  \E t \in TaskIds :
    /\ pc[t] = "recreate"
    /\ ~dest[TableOf(t)].exists
    /\ ops[t][3] = Op("delete", TRUE, {})
    /\ logged[t] = <<LogEvent("warn", "Schema mismatches detected"),
                     LogEvent("warn", MsgSchemaMismatch),
                     LogEvent("error", MsgCritical),
                     LogEvent("warn", MsgDeleteAll)>>

\* the number of tables of the source list
RECURSIVE TotalTables(_)
TotalTables(srcs) ==
  IF srcs = <<>> THEN 0
  ELSE Len(Head(srcs).SourceTables) + TotalTables(Tail(srcs))

\* the k-th (source, table) pair of the source list, counted source by
\* source and table by table
RECURSIVE PairAt(_, _)
PairAt(srcs, k) ==
  IF k <= Len(Head(srcs).SourceTables)
    THEN [source |-> Head(srcs).Name, table |-> Head(srcs).SourceTables[k]]
    ELSE PairAt(Tail(srcs), k - Len(Head(srcs).SourceTables))

\* the connection string and the database name the configuration gives for
\* the source of a name
DSNOf(cfg, name) ==
  IF name = "salesforce" THEN cfg.SalesforceDBConnString
  ELSE cfg.FinanceDBConnString
DBNameOf(cfg, name) ==
  IF name = "salesforce" THEN cfg.SalesforceDBName ELSE cfg.FinanceDBName

\* the k-th worker was given the k-th pair of the source list: the source of
\* its own iteration, with the connection string and database of that source,
\* and the table of its own iteration
HoldsOwnPair(k) ==
  LET a == probe.goroutines[k].args
      p == PairAt(Sources, k)
  IN /\ a.source.Name = p.source
     /\ a.source.DSN = DSNOf(probe.cfg, p.source)
     /\ a.source.DBName = DBNameOf(probe.cfg, p.source)
     /\ a.table = p.table
     /\ probe.goroutines[k].jobLogger = p.table

\* the workers that have called runTableJob
Called == {k \in 1..Len(probe.goroutines) : probe.goroutines[k].called}

\* C22: the two loops of Start over the whole source list, under every
\* configuration and every moment at which the started workers run. When the
\* loops have ended the number of workers started is the total number of
\* tables of all the sources (five); a worker that runs calls runTableJob
\* with the pair of its own iteration, the k-th worker with the k-th pair of
\* the list, whatever the loops have done in the meantime; no two workers
\* are given the same pair; no worker is dropped or started again, and a
\* worker calls runTableJob once, with arguments that never change.
C22_OneWorkerPerPair ==
  /\ [](/\ probe.looped => Len(probe.goroutines) = TotalTables(Sources)
        /\ Len(probe.goroutines) <= TotalTables(Sources)
        /\ \A k \in 1..Len(probe.goroutines) :
             IF k \in Called THEN HoldsOwnPair(k)
             ELSE probe.goroutines[k].args =
                    [source |-> NoSource, table |-> ""]
        /\ \A k, l \in Called :
             k # l =>
               <<probe.goroutines[k].args.source.Name,
                 probe.goroutines[k].args.table>>
                 # <<probe.goroutines[l].args.source.Name,
                     probe.goroutines[l].args.table>>)
  /\ [][/\ Len(probe'.goroutines) \in
             {Len(probe.goroutines), Len(probe.goroutines) + 1}
        /\ \A k \in 1..Len(probe.goroutines) :
             /\ probe'.goroutines[k].refs = probe.goroutines[k].refs
             /\ k \in Called =>
                  probe'.goroutines[k] = probe.goroutines[k]]_vars

\* the loops have ended and the five workers have called runTableJob: two
\* with the tables of "salesforce" and three with those of "finance", under a
\* configuration that gives the two sources different connection strings and
\* databases
C22_Witness ==
  /\ probe.looped
  /\ Called = 1..5
  /\ probe.cfg.SalesforceDBConnString # probe.cfg.FinanceDBConnString
  /\ probe.cfg.SalesforceDBName # probe.cfg.FinanceDBName
  /\ [k \in 1..5 |-> <<probe.goroutines[k].args.source.Name,
                       probe.goroutines[k].args.table>>]
       = << <<"salesforce", "arr_sf_opportunity">>,
            <<"salesforce", "arr_sf_account">>,
            <<"finance", "cache_financial_acc_expense">>,
            <<"finance", "cache_financial_acc_cost_of_sales">>,
            <<"finance", "cache_financial_acc_income">> >>
  /\ probe.goroutines[1].args.source.DSN = probe.cfg.SalesforceDBConnString
  /\ probe.goroutines[5].args.source.DSN = probe.cfg.FinanceDBConnString

\* the record of source row i of worker t
RecordOf(t, i) ==
  ToSaveable(ParseDynamicRow(ColNames(srcCols[t]), srcRows[t][i].vals,
                             DateFormat))

\* the rows iterated so far whose record was written to the buffer
Buffered(t) ==
  {i \in 1..rowNum[t] : ParsedOk(t, i) /\ Encodable(RecordOf(t, i))}

\* the line of the buffer that the record of row i is to be found at
LineOf(t, i) == Cardinality({k \in Buffered(t) : k <= i})

\* C23: from the start of the row loop to the return of the task the buffer
\* holds one line per row that was parsed and written, nothing for the
\* other rows, and the record of row i stands before the record of row j
\* whenever i < j.
C23_BufferInIterationOrder ==
  \A t \in TaskIds :
    pc[t] \in {"next", "load_run", "load_wait", "ret"} =>
      /\ Len(buf[t]) = Cardinality(Buffered(t))
      /\ \A i \in Buffered(t) : buf[t][LineOf(t, i)] = RecordOf(t, i)
      /\ \A i, j \in Buffered(t) : i < j => LineOf(t, i) < LineOf(t, j)
      /\ loadJob[t].st = "pending" => loadJob[t].data = buf[t]

\* two different rows were buffered in source order
C23_Witness ==
  \E t \in TaskIds :
    /\ pc[t] = "load_run"
    /\ srcCols[t] = ColsIdName
    /\ srcRows[t] = <<GoodRow(ColsIdName), TextRow(ColsIdName)>>
    /\ Len(buf[t]) = 2
    /\ buf[t][1]["name"] = NullValue
    /\ buf[t][2]["name"] = [k |-> "string", v |-> "ab"]

\* C24: the inferred schema has one field per column; a field is required
\* exactly when the driver reports the column's nullability as known and the
\* column as not nullable, so a column of unknown nullability is never
\* required.
C24_RequiredOnlyWhenNotNullable ==
  (probe.f = "InferSchemaFromMySQL" /\ probe.done) =>
    /\ Len(probe.out) = Len(probe.columnTypes)
    /\ \A i \in 1..Len(probe.columnTypes) :
         LET c == probe.columnTypes[i]
         IN /\ probe.out[i].Name = c.Name
            /\ probe.out[i].Required = (c.ok /\ ~c.nullable)
            /\ ~c.ok => ~probe.out[i].Required

\* a column of unknown nullability is inferred as nullable beside a column
\* known not to be nullable, which is required
C24_Witness ==
  /\ probe.f = "InferSchemaFromMySQL"
  /\ probe.done
  /\ Len(probe.columnTypes) = 2
  /\ ~probe.columnTypes[1].ok /\ ~probe.columnTypes[1].nullable
  /\ ~probe.out[1].Required
  /\ probe.columnTypes[2].ok /\ ~probe.columnTypes[2].nullable
  /\ probe.out[2].Required

\* the k-th destination call of the worker is a delete with the given result
DeleteAt(t, k, ok) ==
  /\ Len(ops[t]) >= k
  /\ ops[t][k].op = "delete"
  /\ ops[t][k].ok = ok

\* C25: when the delete of a destructive recreate failed it is the last
\* call made, createOrUpdateTable has returned an error and the table is as
\* it was at the start of the task; when the delete succeeded and the
\* create after it failed, createOrUpdateTable has returned an error and
\* the table is absent; and whenever createOrUpdateTable returns with the
\* table absent, it returns an error.
C25_RecreateFailuresAreReported ==
  /\ [](\A t \in TaskIds : \A k \in 1..Len(ops[t]) :
          /\ DeleteAt(t, k, FALSE) =>
               /\ k = Len(ops[t])
               /\ ReconcileReturnedErr(t)
               /\ LastReconNil(t) = FALSE
               /\ dest[TableOf(t)].exists
               /\ dest[TableOf(t)] = preSync[t]
          /\ (DeleteAt(t, k, TRUE) /\ Len(ops[t]) > k /\ ~ops[t][k + 1].ok) =>
               /\ ops[t][k + 1].op = "create"
               /\ k + 1 = Len(ops[t])
               /\ ReconcileReturnedErr(t)
               /\ ~dest[TableOf(t)].exists)
  /\ [][\A t \in TaskIds :
          (Len(reconRet'[t]) = Len(reconRet[t]) + 1
             /\ ~dest'[TableOf(t)].exists) =>
            /\ reconRet'[t][Len(reconRet'[t])] = "err"
            /\ pc'[t] = "ret"
            /\ terr'[t].stage = "reconcile"]_vars

\* the delete succeeded, the create failed: an error and no table
C25_Witness ==
  \E t \in TaskIds :
    /\ ReconcileReturnedErr(t)
    /\ Len(ops[t]) = 4
    /\ ops[t][3] = Op("delete", TRUE, {})
    /\ ops[t][4] = Op("create", FALSE, {})
    /\ preSync[t].exists
    /\ ~dest[TableOf(t)].exists

\* executeJob has returned after entering its row loop
ExecuteReturnedFromLoop(t) ==
  /\ pc[t] = "ret"
  /\ terr[t] = Nil \/ terr[t].stage = "execute"
  /\ terr[t].why # "failed to query database"

\* executeJob has returned, from any of its return statements
ExecuteReturned(t) ==
  /\ pc[t] = "ret"
  /\ terr[t] = Nil \/ terr[t].stage = "execute"

\* rows.Err reported an error
CursorError(t) == terr[t].why = "error during row iteration"

\* the load job was waited for and reported no error
LoadReportedOk(t) ==
  /\ LoadCompleted(t)
  /\ terr[t].why # "failed to wait for BigQuery job to complete"

\* the query ran and every row of the cursor was read without a cursor error
\* and without a serialization failure
IterationClean(t) ==
  /\ terr[t].why # "failed to query database"
  /\ rowNum[t] = Len(srcRows[t])
  /\ ~CursorError(t)
  /\ ~EncodeFailed(t)

\* C26 (as stated): once executeJob has returned from its row loop or from
\* the load, it has returned success exactly when either zero rows were
\* extracted and no cursor error occurred, or the load completed without
\* error.
C26_SuccessIffNoRowsOrLoaded ==
  \A t \in TaskIds :
    ExecuteReturnedFromLoop(t) =>
      (terr[t] = Nil <=>
         \/ totalRowsExtracted[t] = 0 /\ ~CursorError(t)
         \/ LoadReportedOk(t))

\* C26 (amended): once executeJob has returned, it has returned success
\* exactly when either the query ran, every row was read with no cursor
\* error and no serialization failure and zero rows were extracted, or the
\* load was waited for and reported no error; a success with zero rows
\* extracted made no load call and skipped every row the source returned, a
\* success with rows extracted has its load completed.
C26_SuccessIffNothingToLoadOrLoaded ==
  \A t \in TaskIds :
    ExecuteReturned(t) =>
      /\ terr[t] = Nil <=>
           \/ IterationClean(t) /\ totalRowsExtracted[t] = 0
           \/ LoadReportedOk(t)
      /\ (terr[t] = Nil /\ totalRowsExtracted[t] = 0) =>
           /\ ~HasLoadOp(t)
           /\ loadJob[t] = NoJob
           /\ skippedRows[t] = Len(srcRows[t])
      /\ (terr[t] = Nil /\ totalRowsExtracted[t] > 0) =>
           /\ LoadSubmitted(t)
           /\ LoadCompleted(t)

\* the source returned rows, every one failed to parse, and the task ended
\* in success without a load call
C26_Witness ==
  \E t \in TaskIds :
    /\ TaskSucceeded(t)
    /\ Len(srcRows[t]) > 0
    /\ skippedRows[t] = Len(srcRows[t])
    /\ totalRowsExtracted[t] = 0
    /\ ~HasLoadOp(t)

\* the workers of the run that were started on destination table n
WorkersOn(n) == {t \in TaskIds : jobArgs[t] # NoArgs /\ TableOf(t) = n}

\* worker t makes a destination call or has its load job finished in the step
Touches(t) == ops'[t] # ops[t] \/ loadJob'[t] # loadJob[t]

\* no two pairs of the configuration name the same destination table
PairTablesDistinct ==
  \A i, j \in 1..Len(Pairs) : i # j => Pairs[i].table # Pairs[j].table

\* C27: the destination table names of the configured pairs are pairwise
\* distinct; at every moment of a run each destination table has at most
\* one worker started on it; and every step that changes a destination
\* table is a destination call, or the end of the load job, of the one
\* worker started on that table, and changes no other table.
C27_OneWorkerPerTable ==
  /\ [](/\ PairTablesDistinct
        /\ \A t, u \in TaskIds :
             (t # u /\ jobArgs[t] # NoArgs /\ jobArgs[u] # NoArgs) =>
               TableOf(t) # TableOf(u))
  /\ [][\A n \in TableNames :
          dest'[n] # dest[n] =>
            /\ \E t \in WorkersOn(n) :
                 /\ Touches(t)
                 /\ \A u \in TaskIds \ {t} : ~Touches(u)
            /\ \A m \in TableNames \ {n} : dest'[m] = dest[m]]_vars

\* two workers are at work on the destination at once, one waiting for its
\* load, the other reconciling, each on a table of its own
C27_Witness ==
  \E t, u \in TaskIds :
    /\ t # u
    /\ pc[t] = "load_wait"
    /\ loadJob[t].st = "pending"
    /\ pc[u] \in {"create", "update", "delete", "recreate"}
    /\ TableOf(t) # TableOf(u)
    /\ WorkersOn(TableOf(t)) = {t}
    /\ WorkersOn(TableOf(u)) = {u}

====
